---- MODULE Spec2Model ----
(***************************************************************************)
(* A model of the mine-detection system's sensor ingestion and detection   *)
(* pipeline:                                                               *)
(*   - pkg/fusion Detector (grid, filtering, classification, emission),    *)
(*   - application.SensorFusionService and GeospatialService,              *)
(*   - the PostgreSQL detected-object and sensor-data repositories,        *)
(*   - the WebSocket SensorHandler (binary frame decoding).                *)
(*                                                                         *)
(* Numbers.  Go float64 probabilities are written in thousandths (0.7 is   *)
(* 700, 0.75 is 750), depths in hundredths (0.15 is 15).  A decoded        *)
(* coordinate float64(n)/1000000.0 is the rational [num |-> n, den |->     *)
(* 1000000]; the float64 division is exact to one ulp, far below 10^-6.    *)
(* int32 arithmetic keeps its width (wrap at 2^31).                        *)
(***************************************************************************)
EXTENDS Integers, Sequences, FiniteSets, TLC

VARIABLES
    spatialGrid,        \* Detector unit: the spatial grid handed to performKalmanFiltering
    fusedGrid,          \* Detector unit: the grid performKalmanFiltering returned
    classifiedGrid,     \* Detector unit: the classified grid handed to detectSuspiciousRegions
    emitted,            \* Detector unit: the []Detection it returned
    emitPc,             \* Detector unit: "input" before the call, "done" after
    scans,              \* table scans: scan id -> status
    sensorData,         \* table sensor_data: rows in insertion order
    detectedObjects,    \* table detected_objects: id -> row
    rawObjects,         \* object store: raw scan blobs in insertion order
    heatmapData,        \* table heatmap_data: row -> number of copies
    timeSeriesAggregations, \* table time_series_aggregations: row -> number of copies
    deviceStatus,       \* table devices: device id -> status
    deviceConfig,       \* table devices: device id -> config_json
    calls,              \* DeviceService calls in flight or returned, in starting order
    connections,        \* SensorHandler.connections: device id -> connection
    workers,            \* handleMessages goroutines, one per accepted connection
    crashed,            \* the process died of an unrecovered panic
    ev                  \* the last operation executed and what it returned

vars == <<spatialGrid, fusedGrid, classifiedGrid, emitted, emitPc, scans, sensorData,
          detectedObjects, rawObjects, heatmapData, timeSeriesAggregations,
          deviceStatus, deviceConfig, calls, connections, workers, crashed, ev>>

detVars    == <<spatialGrid, fusedGrid>>
emitVars   == <<spatialGrid, fusedGrid, classifiedGrid, emitted, emitPc>>
aggVars    == <<heatmapData, timeSeriesAggregations>>
storeVars  == <<scans, sensorData, detectedObjects, rawObjects, heatmapData,
                timeSeriesAggregations>>
wsVars     == <<deviceStatus, connections, workers, crashed>>
devVars    == <<deviceConfig, calls>>

(***************************************************************************)
(* Bounds of the model.                                                    *)
(***************************************************************************)
MaxReadings == 2
MaxObjects  == 2
MaxConns    == 1
MaxRaw      == 1

(***************************************************************************)
(* Generic helpers.                                                        *)
(***************************************************************************)
Range(s) == { s[i] : i \in DOMAIN s }

Perms(S) == { p \in [1..Cardinality(S) -> S] : Range(p) = S }

Rat(n, d) == [num |-> n, den |-> d]

EmptyMap == [x \in {} |-> 0]

(***************************************************************************)
(* domain: status enumerations (src/unnamed/part_001).                     *)
(***************************************************************************)
ScanStatusInProgress == "in_progress"
ScanStatusCompleted  == "completed"
ScanStatusFailed     == "failed"
ScanStatuses == {ScanStatusInProgress, ScanStatusCompleted, ScanStatusFailed}

VerificationStatusUnverified == "unverified"
VerificationStatusConfirmed  == "confirmed"
VerificationStatusDismissed  == "dismissed"
VerificationStatuses ==
    {VerificationStatusUnverified, VerificationStatusConfirmed, VerificationStatusDismissed}

DeviceStatusActive   == "active"
DeviceStatusInactive == "inactive"

(***************************************************************************)
(* pkg/fusion: the Detector.                                               *)
(*                                                                         *)
(* A Go map[string]interface{} is a function whose DOMAIN is the set of    *)
(* keys present; `v, ok := m[k]` is `k \in DOMAIN m`.  A grid key is kept  *)
(* as the list of its ":"-separated parts, which is what parseGridKey      *)
(* computes first (strings.Split(key, ":")).                               *)
(***************************************************************************)
confidenceThreshold == 700

promotionThreshold == 800

defaultDangerLevel == 3

defaultDepth == 15

SamplePointKey == <<"sample_point">>

\* strconv.ParseFloat on the decimal strings the model uses, in millionths;
\* any other string is a parse error, whose value 0 the caller keeps.
ParseFloat(s) ==
    CASE s = "50.450000" -> 50450000
      [] s = "30.523400" -> 30523400
      [] s = "-33.868800" -> -33868800
      [] s = "151.209300" -> 151209300
      [] OTHER -> 0

parseGridKey(key) ==
    IF Len(key) # 2
    THEN [lat |-> Rat(0, 1000000), lon |-> Rat(0, 1000000)]
    ELSE [lat |-> Rat(ParseFloat(key[1]), 1000000),
          lon |-> Rat(ParseFloat(key[2]), 1000000)]

createSpatialGrid(lidarData, magneticData, acousticData) ==
    [k \in {SamplePointKey} |->
        [lidar |-> lidarData, magnetic |-> magneticData, acoustic |-> acousticData]]

filterLidarData(data) == data
filterMagneticData(data) == data
filterAcousticData(data) == data

fuseLidarAndMagnetic(lidarData, magneticData) ==
    [lidar |-> lidarData, magnetic |-> magneticData]

\* One cell of performKalmanFiltering: the keys of filteredPoint.
FilterPoint(gridPoint) ==
    LET sensors == DOMAIN gridPoint
        filtered ==
            (IF "lidar" \in sensors THEN {"lidar_filtered"} ELSE {})
            \cup (IF "magnetic" \in sensors THEN {"magnetic_filtered"} ELSE {})
            \cup (IF "acoustic" \in sensors THEN {"acoustic_filtered"} ELSE {})
        fused ==
            IF "lidar_filtered" \in filtered /\ "magnetic_filtered" \in filtered
            THEN {"fused_lidar_magnetic"} ELSE {}
    IN  [k \in filtered \cup fused |->
            CASE k = "lidar_filtered"    -> filterLidarData(gridPoint["lidar"])
              [] k = "magnetic_filtered" -> filterMagneticData(gridPoint["magnetic"])
              [] k = "acoustic_filtered" -> filterAcousticData(gridPoint["acoustic"])
              [] OTHER -> fuseLidarAndMagnetic(filterLidarData(gridPoint["lidar"]),
                                               filterMagneticData(gridPoint["magnetic"]))]

performKalmanFiltering(grid) ==
    [key \in DOMAIN grid |-> FilterPoint(grid[key])]

calculateMineProbability(data) == 750
calculateLidarMineProbability(data) == 600
calculateMagneticMineProbability(data) == 700
calculateAcousticMineProbability(data) == 800

RECURSIVE SumSeq(_)
SumSeq(s) == IF s = <<>> THEN 0 ELSE Head(s) + SumSeq(Tail(s))

\* The average of the positive probabilities, 0 when there is none.
combineProbabilities(probs) ==
    LET pos == SelectSeq(probs, LAMBDA p : p > 0)
    IN  IF Len(pos) = 0 THEN 0 ELSE SumSeq(pos) \div Len(pos)

determineObjectType(gridPoint) == "anti_personnel_mine"
determineDangerLevel(gridPoint) == 4

\* The mutant of Promotes: a probability equal to the threshold promotes.
PromotesAtThreshold(mineProb) == mineProb >= promotionThreshold

\* applyBayesianNetwork: `if mineProb > 0.8`.
Promotes(mineProb) == mineProb > promotionThreshold

\* One cell of applyBayesianNetwork.
ClassifyPoint(gridPoint) ==
    LET mineProb ==
            IF "fused_lidar_magnetic" \in DOMAIN gridPoint
            THEN calculateMineProbability(gridPoint["fused_lidar_magnetic"])
            ELSE combineProbabilities(
                   << IF "lidar_filtered" \in DOMAIN gridPoint
                      THEN calculateLidarMineProbability(gridPoint["lidar_filtered"]) ELSE 0,
                      IF "magnetic_filtered" \in DOMAIN gridPoint
                      THEN calculateMagneticMineProbability(gridPoint["magnetic_filtered"]) ELSE 0,
                      IF "acoustic_filtered" \in DOMAIN gridPoint
                      THEN calculateAcousticMineProbability(gridPoint["acoustic_filtered"]) ELSE 0 >>)
    IN  IF Promotes(mineProb)
        THEN [mine_probability |-> mineProb,
              object_type |-> determineObjectType(gridPoint),
              danger_level |-> determineDangerLevel(gridPoint)]
        ELSE [mine_probability |-> mineProb]

applyBayesianNetwork(grid) ==
    [key \in DOMAIN grid |-> ClassifyPoint(grid[key])]

\* The mutant of PassesThreshold: a strict comparison.
PassesThresholdStrict(mineProb) == mineProb > confidenceThreshold

\* detectSuspiciousRegions: `if mineProb >= d.confidenceThreshold`.
PassesThreshold(mineProb) == mineProb >= confidenceThreshold

\* The Detection detectSuspiciousRegions builds for one passing cell.
MakeDetection(key, classification) ==
    LET pos == parseGridKey(key)
    IN  [Latitude    |-> pos.lat,
         Longitude   |-> pos.lon,
         Confidence  |-> classification["mine_probability"],
         ObjectType  |-> IF "object_type" \in DOMAIN classification
                         THEN classification["object_type"] ELSE "unknown",
         DangerLevel |-> IF "danger_level" \in DOMAIN classification
                         THEN classification["danger_level"] ELSE defaultDangerLevel,
         Depth       |-> IF "depth" \in DOMAIN classification
                         THEN classification["depth"] ELSE defaultDepth]

\* detectSuspiciousRegions over the grid's keys in the order `order`, the
\* order in which Go's `range` happens to visit the map.
RECURSIVE detectSuspiciousRegions(_, _)
detectSuspiciousRegions(grid, order) ==
    IF order = <<>> THEN <<>>
    ELSE LET key == Head(order)
             classification == grid[key]
             rest == detectSuspiciousRegions(grid, Tail(order))
         IN  IF "mine_probability" \notin DOMAIN classification THEN rest
             ELSE IF PassesThreshold(classification["mine_probability"])
                  THEN <<MakeDetection(key, classification)>> \o rest
                  ELSE rest

\* Detector.FuseAndDetect.  The arguments are []*domain.SensorData values
\* wrapped in interface{}: never the nil interface, so the "no sensor data
\* provided" error cannot be returned to SensorFusionService.
DetectorFuseAndDetect(lidarData, magneticData, acousticData, order) ==
    detectSuspiciousRegions(
        applyBayesianNetwork(
            performKalmanFiltering(
                createSpatialGrid(lidarData, magneticData, acousticData))),
        order)

(***************************************************************************)
(* The Detection Emitter as a unit: detectSuspiciousRegions applied to a   *)
(* classified grid drawn from sample cells around the threshold.           *)
(***************************************************************************)
EmitKeys == { <<"50.450000", "30.523400">>, <<"-33.868800", "151.209300">> }

EmitClassifications ==
    { [mine_probability |-> p] : p \in {0, 699, 700, 701, 750} }
    \cup { [mine_probability |-> p, object_type |-> "anti_personnel_mine", danger_level |-> 4]
             : p \in {801, 1000} }
    \cup { [object_type |-> "anti_personnel_mine"] }

EmitGrids == UNION { [K -> EmitClassifications] : K \in SUBSET EmitKeys }

InitStores ==
    /\ scans = EmptyMap
    /\ sensorData = <<>>
    /\ detectedObjects = EmptyMap
    /\ rawObjects = <<>>
    /\ heatmapData = <<>>
    /\ timeSeriesAggregations = <<>>

InitDev ==
    /\ deviceConfig = [d \in DOMAIN deviceStatus |-> "{}"]
    /\ calls = <<>>

InitWs ==
    /\ deviceStatus = EmptyMap
    /\ connections = EmptyMap
    /\ workers = <<>>
    /\ crashed = FALSE

NoEvent == [op |-> "none"]

InitEmit ==
    /\ spatialGrid = EmptyMap
    /\ fusedGrid = EmptyMap
    /\ classifiedGrid \in EmitGrids
    /\ emitted = <<>>
    /\ emitPc = "input"
    /\ InitStores
    /\ InitWs
    /\ InitDev
    /\ ev = NoEvent

Emit ==
    /\ emitPc = "input"
    /\ \E order \in Perms(DOMAIN classifiedGrid) :
          emitted' = detectSuspiciousRegions(classifiedGrid, order)
    /\ emitPc' = "done"
    /\ UNCHANGED <<detVars, classifiedGrid, storeVars, wsVars, devVars, ev>>

NextEmit == Emit

SpecEmit == InitEmit /\ [][NextEmit]_vars

\* The detections emitted for the cell `key`: those at its coordinates.
EmittedAt(key) ==
    { i \in DOMAIN emitted :
        /\ emitted[i].Latitude = parseGridKey(key).lat
        /\ emitted[i].Longitude = parseGridKey(key).lon }

\* C1: after detectSuspiciousRegions, a cell has a Detection if and only if
\* its mine probability is >= the confidence threshold 0.7: exactly one when
\* the probability is at or above 0.7 (0.7 itself included), none when it is
\* below or absent, and the Detection carries the cell's probability.
C1_EmitIffAtLeastThreshold ==
    emitPc = "done" =>
        /\ \A key \in DOMAIN classifiedGrid :
              LET c == classifiedGrid[key]
              IN  IF "mine_probability" \in DOMAIN c /\ c["mine_probability"] >= 700
                  THEN /\ Cardinality(EmittedAt(key)) = 1
                       /\ \A i \in EmittedAt(key) :
                             emitted[i].Confidence = c["mine_probability"]
                  ELSE EmittedAt(key) = {}
        /\ Len(emitted) <= Cardinality(DOMAIN classifiedGrid)

\* C1 witness: a cell exactly at the threshold got its Detection while a cell
\* just below it got none.
C1_Witness ==
    /\ emitPc = "done"
    /\ \E k1, k2 \in DOMAIN classifiedGrid :
          /\ classifiedGrid[k1] = [mine_probability |-> 700]
          /\ classifiedGrid[k2] = [mine_probability |-> 699]
          /\ Cardinality(EmittedAt(k1)) = 1
          /\ EmittedAt(k2) = {}

(***************************************************************************)
(* Identifiers.  A uuid is its 16 bytes (uuid.FromBytes).  ScanA and ScanB *)
(* are rows of table scans; ScanX is a well-formed id of no row.           *)
(***************************************************************************)
ScanA == [i \in 1..16 |-> 16 + i]
ScanB == [i \in 1..16 |-> 48 + i]
ScanX == [i \in 1..16 |-> 80 + i]
ScanIDs == {ScanA, ScanB}

(***************************************************************************)
(* pkg/fusion: per-sensor payload processing (placeholders that drop the   *)
(* payload) and SensorFusionService.processSensorTypeData.                 *)
(***************************************************************************)
ProcessLidarData(data)    == [processed |-> TRUE, type |-> "lidar"]
ProcessMagneticData(data) == [processed |-> TRUE, type |-> "magnetic"]
ProcessAcousticData(data) == [processed |-> TRUE, type |-> "acoustic"]

processSensorTypeData(sensorType, data) ==
    CASE sensorType = "lidar"    -> [err |-> "", value |-> ProcessLidarData(data)]
      [] sensorType = "magnetic" -> [err |-> "", value |-> ProcessMagneticData(data)]
      [] sensorType = "acoustic" -> [err |-> "", value |-> ProcessAcousticData(data)]
      [] OTHER -> [err |-> "unsupported sensor type", value |-> EmptyMap]

(***************************************************************************)
(* PostgresSensorDataRepository.                                           *)
(***************************************************************************)
\* FindBySensorType: the rows of one scan and sensor type, in stored order.
FindBySensorType(table, scanID, sensorType) ==
    SelectSeq(table, LAMBDA r : r.ScanID = scanID /\ r.SensorType = sensorType)

(***************************************************************************)
(* SensorFusionService.FuseAndDetect and PostgresDetectedObjectRepository. *)
(***************************************************************************)
\* The mutant of NewDetectedObject: a Detection born confirmed.
NewDetectedObjectConfirmed(id, scanID, detection) ==
    [ID |-> id, ScanID |-> scanID,
     Latitude |-> detection.Latitude, Longitude |-> detection.Longitude,
     Depth |-> detection.Depth, ObjectType |-> detection.ObjectType,
     Confidence |-> detection.Confidence, DangerLevel |-> detection.DangerLevel,
     VerificationStatus |-> VerificationStatusConfirmed]

\* The domain.DetectedObject FuseAndDetect builds from a fusion.Detection.
NewDetectedObject(id, scanID, detection) ==
    [ID |-> id, ScanID |-> scanID,
     Latitude |-> detection.Latitude, Longitude |-> detection.Longitude,
     Depth |-> detection.Depth, ObjectType |-> detection.ObjectType,
     Confidence |-> detection.Confidence, DangerLevel |-> detection.DangerLevel,
     VerificationStatus |-> VerificationStatusUnverified]

\* PostgresDetectedObjectRepository.Save: a plain INSERT.  The only
\* constraint that can reject the row is the foreign key on scan_id.
SaveAccepts(obj) == obj.ScanID \in DOMAIN scans

\* SensorFusionService.FuseAndDetect for scan `scanID`.  uuid.New() is the
\* next unused row number.  `nOk` rows are inserted before a Save fails
\* (nOk = number of detections when none fails); the rows inserted before
\* the failure stay, as each Save is its own statement.
SvcFuseAndDetect(scanID) ==
    LET lidarData    == FindBySensorType(sensorData, scanID, "lidar")
        magneticData == FindBySensorType(sensorData, scanID, "magnetic")
        acousticData == FindBySensorType(sensorData, scanID, "acoustic")
    IN  \E order \in Perms({SamplePointKey}) :
          LET detections == DetectorFuseAndDetect(lidarData, magneticData, acousticData, order)
              n == Len(detectedObjects)
              objs == [i \in 1..Len(detections) |->
                          NewDetectedObject(n + i, scanID, detections[i])]
          IN  \E nOk \in 0..Len(detections) :
                /\ n + nOk <= MaxObjects
                /\ nOk > 0 => SaveAccepts(objs[1])
                /\ detectedObjects' = detectedObjects \o SubSeq(objs, 1, nOk)
                /\ ev' = [op |-> "FuseAndDetect", scan |-> scanID,
                          err |-> IF nOk < Len(detections) THEN "save failed" ELSE "",
                          saved |-> nOk]
                /\ UNCHANGED <<emitVars, devVars, scans, sensorData, rawObjects, aggVars, wsVars>>

\* PostgresDetectedObjectRepository.UpdateVerificationStatus:
\* UPDATE detected_objects SET verification_status = $2 WHERE id = $1.
UpdateVerificationStatus(id, status) ==
    /\ IF id \in DOMAIN detectedObjects
       THEN /\ detectedObjects' =
                  [detectedObjects EXCEPT ![id].VerificationStatus = status]
            /\ ev' = [op |-> "UpdateVerificationStatus", id |-> id, err |-> ""]
       ELSE /\ UNCHANGED detectedObjects
            /\ ev' = [op |-> "UpdateVerificationStatus", id |-> id,
                      err |-> "detected object not found"]
    /\ UNCHANGED <<emitVars, devVars, scans, sensorData, rawObjects, aggVars, wsVars>>

\* PostgresDetectedObjectRepository.Update: every column but id is
\* overwritten with the caller's object.
DetUpdate(obj) ==
    /\ IF obj.ID \in DOMAIN detectedObjects /\ SaveAccepts(obj)
       THEN /\ detectedObjects' = [detectedObjects EXCEPT ![obj.ID] = obj]
            /\ ev' = [op |-> "Update", id |-> obj.ID, err |-> ""]
       ELSE /\ UNCHANGED detectedObjects
            /\ ev' = [op |-> "Update", id |-> obj.ID,
                      err |-> IF obj.ID \in DOMAIN detectedObjects
                              THEN "foreign key violation"
                              ELSE "detected object not found"]
    /\ UNCHANGED <<emitVars, devVars, scans, sensorData, rawObjects, aggVars, wsVars>>

\* The objects a caller hands to Update: a stored row read back (FindByID)
\* with one field changed.
UpdateInputs ==
    UNION { { [detectedObjects[id] EXCEPT !.VerificationStatus = st] : st \in VerificationStatuses }
            \cup { [detectedObjects[id] EXCEPT !.Confidence = c] : c \in {750, 900} }
            \cup { [detectedObjects[id] EXCEPT !.ScanID = s] : s \in {ScanA, ScanX} }
          : id \in DOMAIN detectedObjects }
    \cup { [ID |-> MaxObjects + 1, ScanID |-> ScanA,
            Latitude |-> Rat(0, 1000000), Longitude |-> Rat(0, 1000000),
            Depth |-> defaultDepth, ObjectType |-> "unknown", Confidence |-> 750,
            DangerLevel |-> defaultDangerLevel,
            VerificationStatus |-> VerificationStatusConfirmed] }

\* Sample contents of table sensor_data for the detection runs.
SampleReading(id, scanID, sensorType) ==
    [ID |-> id, ScanID |-> scanID, SensorType |-> sensorType,
     Latitude |-> Rat(50450000, 1000000), Longitude |-> Rat(30523400, 1000000),
     Altitude |-> Rat(12345, 100),
     Data |-> [processed |-> TRUE, type |-> sensorType],
     QualityIndicators |-> [signalStrength |-> 200]]

SampleTables ==
    { <<>>,
      <<SampleReading(1, ScanA, "lidar")>>,
      <<SampleReading(1, ScanA, "lidar"), SampleReading(2, ScanA, "magnetic")>> }

InitEmitIdle ==
    /\ spatialGrid = EmptyMap
    /\ fusedGrid = EmptyMap
    /\ classifiedGrid = EmptyMap
    /\ emitted = <<>>
    /\ emitPc = "idle"

InitDetect ==
    /\ InitEmitIdle
    /\ scans = [s \in ScanIDs |-> IF s = ScanA THEN ScanStatusInProgress
                                              ELSE ScanStatusCompleted]
    /\ sensorData \in SampleTables
    /\ detectedObjects = <<>>
    /\ rawObjects = <<>>
    /\ heatmapData = <<>>
    /\ timeSeriesAggregations = <<>>
    /\ InitWs
    /\ InitDev
    /\ ev = NoEvent

NextDetect ==
    \/ \E scanID \in ScanIDs \cup {ScanX} : SvcFuseAndDetect(scanID)
    \/ \E id \in 1..(MaxObjects + 1), status \in VerificationStatuses :
          UpdateVerificationStatus(id, status)
    \/ \E obj \in UpdateInputs : DetUpdate(obj)

SpecDetect == InitDetect /\ [][NextDetect]_vars

TerminalStatuses == {VerificationStatusConfirmed, VerificationStatusDismissed}
OpenStatuses == {VerificationStatusUnverified, VerificationStatusConfirmed}

\* C2: a Detection whose verification status is confirmed or dismissed keeps
\* that status through every detection-store operation; the only moves are
\* unverified -> confirmed and unverified -> dismissed.
C2_TerminalStatusIsFinal ==
    [][ \A id \in DOMAIN detectedObjects :
           detectedObjects[id].VerificationStatus \in TerminalStatuses =>
              detectedObjects'[id].VerificationStatus =
                 detectedObjects[id].VerificationStatus ]_vars

\* C3: running FuseAndDetect again over unchanged Readings of a scan inserts
\* no second open (unverified or confirmed) Detection for a cell of that scan
\* that already has one.
C3_NoDuplicateOpenDetection ==
    \A i, j \in DOMAIN detectedObjects :
        ( /\ i # j
          /\ detectedObjects[i].ScanID = detectedObjects[j].ScanID
          /\ detectedObjects[i].Latitude = detectedObjects[j].Latitude
          /\ detectedObjects[i].Longitude = detectedObjects[j].Longitude
          /\ detectedObjects[i].VerificationStatus \in OpenStatuses )
        => detectedObjects[j].VerificationStatus \notin OpenStatuses

\* C4: every row that a step adds to detected_objects (only FuseAndDetect
\* inserts) has verification status unverified.
C4_NewDetectionsAreUnverified ==
    [][ \A id \in DOMAIN detectedObjects' \ DOMAIN detectedObjects :
           detectedObjects'[id].VerificationStatus = VerificationStatusUnverified ]_vars

\* C4 witness: FuseAndDetect has just persisted a Detection.
C4_Witness ==
    /\ ev.op = "FuseAndDetect"
    /\ ev.saved = 1
    /\ ev.err = ""
    /\ detectedObjects[Len(detectedObjects)].VerificationStatus = VerificationStatusUnverified
    /\ detectedObjects[Len(detectedObjects)].Confidence = 750

(***************************************************************************)
(* ports/ws: binary frame decoding.                                        *)
(*                                                                         *)
(* A frame is the sequence of its bytes.  Go indexes from 0: data[i] is    *)
(* At(data, i), data[lo:hi] is Slice(data, lo, hi).  Reading data[i] with  *)
(* i >= len(data), or slicing data[lo:] with lo > len(data), is a Go       *)
(* run-time panic.                                                         *)
(***************************************************************************)
At(data, i) == data[i + 1]
Slice(data, lo, hi) == SubSeq(data, lo + 1, hi)

magic0 == 170
magic1 == 85
minHeaderLen == 8
scanIDStart == 8
scanIDEnd == 24
latOffset == 24
lonOffset == 28
altOffset == 32
qualityOffset == 36
dataStart == 40

Pow2(k) == 2 ^ k
MinInt32 == (-1073741824) * 2
MaxInt32 == 1073741823 * 2 + 1

\* The mutant of Shl32: the bit shifted into the sign position is lost.
Shl32SignLost(x, k) == (x % Pow2(31 - k)) * Pow2(k)

\* int32(x) << k for 0 <= x: the bits pushed past bit 31 are dropped and
\* bit 31 is the sign (two's complement).
Shl32(x, k) ==
    (x % Pow2(31 - k)) * Pow2(k) + ((x \div Pow2(31 - k)) % 2) * MinInt32

\* a | b on two's-complement integers.
RECURSIVE Or32(_, _)
Or32(a, b) ==
    IF a = 0 THEN b
    ELSE IF b = 0 THEN a
    ELSE IF a = -1 \/ b = -1 THEN -1
    ELSE 2 * Or32(a \div 2, b \div 2) + (IF a % 2 = 1 \/ b % 2 = 1 THEN 1 ELSE 0)

\* int32(data[o])<<24 | int32(data[o+1])<<16 | int32(data[o+2])<<8 | int32(data[o+3])
beInt32(data, o) ==
    Or32(Or32(Or32(Shl32(At(data, o), 24), Shl32(At(data, o + 1), 16)),
              Shl32(At(data, o + 2), 8)),
         At(data, o + 3))

\* The mutant of MagicOK: the magic number is not checked.
MagicNotChecked(data) == TRUE

\* `data[0] != 0xAA || data[1] != 0x55` is false.
MagicOK(data) == At(data, 0) = magic0 /\ At(data, 1) = magic1

\* The mutant of extractScanID: the id is read right after the packet type.
extractScanIDAfterType(data) ==
    IF Len(data) < scanIDEnd
    THEN [err |-> "data too short to contain scan ID", id |-> <<>>]
    ELSE [err |-> "", id |-> Slice(data, 4, 20)]

extractScanID(data) ==
    IF Len(data) < scanIDEnd
    THEN [err |-> "data too short to contain scan ID", id |-> <<>>]
    ELSE [err |-> "", id |-> Slice(data, scanIDStart, scanIDEnd)]

\* extractMetadata indexes data[24] .. data[36] without a length test.
extractMetadataPanics(data) == Len(data) <= qualityOffset

extractMetadata(data) ==
    [metadata |->
        [latitude  |-> Rat(beInt32(data, latOffset), 1000000),
         longitude |-> Rat(beInt32(data, lonOffset), 1000000),
         altitude  |-> Rat(beInt32(data, altOffset), 100),
         quality   |-> [signalStrength |-> At(data, qualityOffset)]],
     dataStart |-> dataStart]

(***************************************************************************)
(* PostgresSensorDataRepository.SaveBatch: one transaction; with `dbOk`    *)
(* false a statement or the commit fails and the deferred Rollback leaves  *)
(* the table as it was.                                                    *)
(***************************************************************************)
SaveBatch(table, batch, dbOk) ==
    IF Len(batch) = 0 THEN [err |-> "", table |-> table]
    ELSE IF dbOk THEN [err |-> "", table |-> table \o batch]
    ELSE [err |-> "persistence failure", table |-> table]

(***************************************************************************)
(* SensorFusionService.ProcessSensorData.  The scan is looked up and its   *)
(* row discarded (`if _, err := s.scanRepo.FindByID(...)`).                *)
(***************************************************************************)
ProcessSensorData(scanID, sensorType, data, metadata, table, dbOk) ==
    IF scanID \notin DOMAIN scans THEN [err |-> "scan not found", table |-> table]
    ELSE IF "latitude" \notin DOMAIN metadata THEN [err |-> "no latitude", table |-> table]
    ELSE IF "longitude" \notin DOMAIN metadata THEN [err |-> "no longitude", table |-> table]
    ELSE IF "altitude" \notin DOMAIN metadata THEN [err |-> "no altitude", table |-> table]
    ELSE IF "quality" \notin DOMAIN metadata THEN [err |-> "no quality", table |-> table]
    ELSE LET processed == processSensorTypeData(sensorType, data)
         IN  IF processed.err # "" THEN [err |-> processed.err, table |-> table]
             ELSE SaveBatch(table,
                            << [ID |-> Len(table) + 1,
                                ScanID |-> scanID,
                                SensorType |-> sensorType,
                                Latitude |-> metadata["latitude"],
                                Longitude |-> metadata["longitude"],
                                Altitude |-> metadata["altitude"],
                                Data |-> processed.value,
                                QualityIndicators |-> metadata["quality"]] >>,
                            dbOk)

NoCall == [none |-> TRUE]

Dropped(why, table) ==
    [outcome |-> "dropped", err |-> why, call |-> NoCall, table |-> table, panic |-> FALSE]

(***************************************************************************)
(* SensorHandler.handleBinaryMessage on frame `data`: what it logged, the  *)
(* ProcessSensorData call it made (if any), the table afterwards, and      *)
(* whether it panicked.                                                    *)
(***************************************************************************)
handleBinaryMessage(data, table, dbOk) ==
    IF Len(data) < minHeaderLen THEN Dropped("invalid binary message format", table)
    ELSE IF ~MagicOK(data) THEN Dropped("invalid magic number", table)
    ELSE LET packetType == At(data, 3)
         IN  CASE packetType = 1 ->
                    LET sid == extractScanID(data)
                    IN  IF sid.err # "" THEN Dropped(sid.err, table)
                        ELSE IF extractMetadataPanics(data) \/ Len(data) < dataStart
                        THEN [outcome |-> "panic", err |-> "index out of range",
                              call |-> NoCall, table |-> table, panic |-> TRUE]
                        ELSE LET md == extractMetadata(data)
                                 payload == Slice(data, md.dataStart, Len(data))
                                 r == ProcessSensorData(sid.id, "lidar", payload,
                                                        md.metadata, table, dbOk)
                             IN  [outcome |-> "processed", err |-> r.err,
                                  call |-> [scanID |-> sid.id, sensorType |-> "lidar",
                                            data |-> payload, metadata |-> md.metadata],
                                  table |-> r.table, panic |-> FALSE]
               [] packetType = 2 ->
                    [outcome |-> "ignored", err |-> "", call |-> NoCall,
                     table |-> table, panic |-> FALSE]
               [] packetType = 3 ->
                    [outcome |-> "ignored", err |-> "", call |-> NoCall,
                     table |-> table, panic |-> FALSE]
               [] OTHER -> Dropped("unknown packet type", table)

(***************************************************************************)
(* Frames offered to the handler.  A specimen is the reading a device      *)
(* wants to report.  EncodeFrame lays its fields out with `gap` unused     *)
(* bytes between the packet type and the scan id and `pad` unused bytes    *)
(* between the signal-quality byte and the payload.                        *)
(***************************************************************************)
Byte(n, i) == (n \div Pow2(8 * i)) % 256
BE32(n) == << Byte(n, 3), Byte(n, 2), Byte(n, 1), Byte(n, 0) >>
Zeros(n) == [i \in 1..n |-> 0]

EncodeFrame(s, gap, pad) ==
    << 170, 85, 0, s.ptype >> \o Zeros(gap) \o s.scan
       \o BE32(s.lat) \o BE32(s.lon) \o BE32(s.alt) \o << s.q >>
       \o Zeros(pad) \o s.payload

\* The layout the handler reads: 8-byte header, 16-byte scan id, 16-byte
\* metadata area, payload.
EncodeWire(s) == EncodeFrame(s, 4, 3)
\* The layout of the interface description: every field follows the
\* previous one.
EncodePacked(s) == EncodeFrame(s, 0, 0)

PackedHeaderLen == 2 + 1 + 1 + 16 + (4 + 4 + 4 + 1)

Specimen(t, scan, lat, lon, alt, q, payload) ==
    [ptype |-> t, scan |-> scan, lat |-> lat, lon |-> lon, alt |-> alt,
     q |-> q, payload |-> payload]

SpecimenNorth   == Specimen(1, ScanA, 50450000, 30523400, 12345, 200, <<7, 8>>)
SpecimenSouth   == Specimen(1, ScanB, -33868800, MinInt32, -1, 0, <<>>)
SpecimenExtreme == Specimen(1, ScanX, MaxInt32, -1, MinInt32, 255, <<9>>)
SpecimenMagnetic == Specimen(2, ScanA, 50450000, 30523400, 12345, 200, <<7, 8>>)
SpecimenAcoustic == Specimen(3, ScanA, 50450000, 30523400, 12345, 200, <<7, 8>>)
SpecimenUnknown == Specimen(9, ScanA, 50450000, 30523400, 12345, 200, <<7, 8>>)
SpecimenLong    == Specimen(1, ScanA, 50450000, 30523400, 12345, 200,
                            <<1, 2, 3, 4, 5, 6, 7, 8>>)

Specimens ==
    { SpecimenNorth, SpecimenSouth, SpecimenExtreme,
      SpecimenMagnetic, SpecimenAcoustic, SpecimenUnknown }

BadMagic(frame) == [frame EXCEPT ![2] = 86]

TruncationLengths == {3, 7, 8, 23, 24, 36, 39}

Frames ==
    { EncodeWire(s) : s \in Specimens }
    \cup { EncodePacked(SpecimenNorth), EncodePacked(SpecimenLong) }
    \cup { BadMagic(EncodeWire(SpecimenNorth)) }
    \cup { SubSeq(EncodeWire(SpecimenNorth), 1, n) : n \in TruncationLengths }
    \cup { SubSeq(EncodeWire(SpecimenMagnetic), 1, 10) }

Devices == {"dev1"}

(***************************************************************************)
(* DeviceService.UpdateDeviceStatus: FindByID, set Status, Update.         *)
(***************************************************************************)
UpdateDeviceStatus(table, deviceID, status) ==
    IF deviceID \in DOMAIN table
    THEN [err |-> "", table |-> [table EXCEPT ![deviceID] = status]]
    ELSE [err |-> "device not found", table |-> table]

WorkerRunning(c) == ~crashed /\ c \in DOMAIN workers /\ workers[c].state = "running"

(***************************************************************************)
(* SensorHandler.HandleConnection for a request carrying device `d`'s      *)
(* token (authOk) or none, with the WebSocket upgrade succeeding or not.   *)
(***************************************************************************)
HandleConnection(d, authOk, upgradeOk) ==
    /\ ~crashed
    /\ Len(workers) < MaxConns
    /\ LET upd == UpdateDeviceStatus(deviceStatus, d, DeviceStatusActive)
           c == Len(workers) + 1
       IN  IF ~authOk
           THEN /\ UNCHANGED <<deviceStatus, connections, workers>>
                /\ ev' = [op |-> "connect", dev |-> d, outcome |-> "Unauthorized"]
           ELSE IF upd.err # ""
           THEN /\ UNCHANGED <<deviceStatus, connections, workers>>
                /\ ev' = [op |-> "connect", dev |-> d, outcome |-> "StatusError"]
           ELSE IF ~upgradeOk
           THEN /\ deviceStatus' = upd.table
                /\ UNCHANGED <<connections, workers>>
                /\ ev' = [op |-> "connect", dev |-> d, outcome |-> "UpgradeError"]
           ELSE /\ deviceStatus' = upd.table
                /\ connections' = [k \in DOMAIN connections \cup {d} |->
                                      IF k = d THEN c ELSE connections[k]]
                /\ workers' = Append(workers, [dev |-> d, state |-> "running"])
                /\ ev' = [op |-> "connect", dev |-> d, outcome |-> "Connected"]
    /\ UNCHANGED <<crashed, emitVars, devVars, storeVars>>

(***************************************************************************)
(* The deferred function of handleMessages: close the connection, delete   *)
(* the device's entry, mark the device inactive.                           *)
(***************************************************************************)
CleanupConnections(c) ==
    [k \in DOMAIN connections \ {workers[c].dev} |-> connections[k]]
CleanupDeviceStatus(c) ==
    UpdateDeviceStatus(deviceStatus, workers[c].dev, DeviceStatusInactive).table
CleanupWorkers(c) == [workers EXCEPT ![c].state = "exited"]

(***************************************************************************)
(* One turn of the handleMessages loop with a binary message.  A panic in  *)
(* the handler unwinds the goroutine (the deferred function runs) and,     *)
(* not being recovered, ends the process.                                  *)
(***************************************************************************)
ReadBinary(c, data, dbOk) ==
    /\ WorkerRunning(c)
    /\ \E r \in {handleBinaryMessage(data, sensorData, dbOk)} :
           /\ Len(r.table) <= MaxReadings
           /\ sensorData' = r.table
           /\ ev' = [op |-> "binary", conn |-> c, data |-> data,
                     outcome |-> r.outcome, err |-> r.err, call |-> r.call,
                     stored |-> Len(r.table) - Len(sensorData)]
           /\ IF r.panic
              THEN /\ connections' = CleanupConnections(c)
                   /\ deviceStatus' = CleanupDeviceStatus(c)
                   /\ workers' = CleanupWorkers(c)
                   /\ crashed' = TRUE
              ELSE UNCHANGED <<connections, deviceStatus, workers, crashed>>
    /\ UNCHANGED <<emitVars, devVars, scans, detectedObjects, rawObjects, aggVars>>

(***************************************************************************)
(* One turn of the loop with a text message {"type": "heartbeat"}.         *)
(***************************************************************************)
ReadHeartbeat(c) ==
    /\ WorkerRunning(c)
    /\ deviceStatus' = UpdateDeviceStatus(deviceStatus, workers[c].dev,
                                          DeviceStatusActive).table
    /\ ev' = [op |-> "heartbeat", conn |-> c,
              acked |-> workers[c].dev \in DOMAIN connections]
    /\ UNCHANGED <<connections, workers, crashed, emitVars, devVars, storeVars>>

(***************************************************************************)
(* conn.ReadMessage returns an error: the loop breaks and the deferred     *)
(* function runs.                                                          *)
(***************************************************************************)
ReadError(c) ==
    /\ WorkerRunning(c)
    /\ connections' = CleanupConnections(c)
    /\ deviceStatus' = CleanupDeviceStatus(c)
    /\ workers' = CleanupWorkers(c)
    /\ ev' = [op |-> "closed", conn |-> c]
    /\ UNCHANGED <<crashed, emitVars, devVars, storeVars>>

(***************************************************************************)
(* PostgresScanRepository.UpdateStatus.                                    *)
(***************************************************************************)
ScanUpdateStatus(scanID, status) ==
    /\ ~crashed
    /\ scanID \in DOMAIN scans
    /\ scans' = [scans EXCEPT ![scanID] = status]
    /\ ev' = [op |-> "scan_status", scan |-> scanID]
    /\ UNCHANGED <<sensorData, detectedObjects, rawObjects, aggVars, emitVars, devVars, wsVars>>

(***************************************************************************)
(* GeospatialService.SaveRawScanData; the object store accepts the upload  *)
(* (storeOk) or fails.                                                     *)
(***************************************************************************)
SaveRawScanData(scanID, sensorType, storeOk) ==
    /\ ~crashed
    /\ LET err == IF scanID \notin DOMAIN scans THEN "scan not found"
                  ELSE IF scans[scanID] # ScanStatusInProgress
                       THEN "cannot save data for inactive scan"
                  ELSE IF ~storeOk THEN "failed to save raw data"
                  ELSE ""
       IN  /\ err = "" => Len(rawObjects) < MaxRaw
           /\ rawObjects' = IF err = ""
                            THEN Append(rawObjects, [scan |-> scanID, type |-> sensorType])
                            ELSE rawObjects
           /\ ev' = [op |-> "SaveRawScanData", scan |-> scanID, err |-> err,
                     stored |-> Len(rawObjects') - Len(rawObjects)]
    /\ UNCHANGED <<scans, sensorData, detectedObjects, aggVars, emitVars, devVars, wsVars>>

Init ==
    /\ InitEmitIdle
    /\ scans = [s \in ScanIDs |-> IF s = ScanA THEN ScanStatusInProgress
                                              ELSE ScanStatusCompleted]
    /\ sensorData = <<>>
    /\ detectedObjects = <<>>
    /\ rawObjects = <<>>
    /\ heatmapData = <<>>
    /\ timeSeriesAggregations = <<>>
    /\ deviceStatus = [d \in Devices |-> DeviceStatusInactive]
    /\ connections = EmptyMap
    /\ workers = <<>>
    /\ crashed = FALSE
    /\ InitDev
    /\ ev = NoEvent

Next ==
    \/ \E d \in Devices, authOk \in BOOLEAN, upgradeOk \in BOOLEAN :
          HandleConnection(d, authOk, upgradeOk)
    \/ \E c \in 1..MaxConns, data \in Frames, dbOk \in BOOLEAN : ReadBinary(c, data, dbOk)
    \/ \E c \in 1..MaxConns : ReadHeartbeat(c)
    \/ \E c \in 1..MaxConns : ReadError(c)
    \/ \E status \in ScanStatuses : ScanUpdateStatus(ScanB, status)
    \/ \E scanID \in ScanIDs \cup {ScanX}, storeOk \in BOOLEAN :
          SaveRawScanData(scanID, "lidar", storeOk)

Spec == Init /\ [][Next]_vars

(***************************************************************************)
(* Properties of the ingest path.  `ev` holds the last operation: for a    *)
(* binary message the frame, what the handler did with it, the             *)
(* ProcessSensorData call it made and the number of rows it added.         *)
(***************************************************************************)
WrongMagic(data) == Len(data) >= 2 /\ (data[1] # 170 \/ data[2] # 85)
UnrecognizedType(data) == Len(data) >= 4 /\ data[4] \notin {1, 2, 3}

SensorTypeOf(t) ==
    CASE t = 1 -> "lidar" [] t = 2 -> "magnetic" [] t = 3 -> "acoustic" [] OTHER -> "none"

\* The ProcessSensorData call that reports specimen s.
CallOf(s) ==
    [scanID |-> s.scan, sensorType |-> SensorTypeOf(s.ptype), data |-> s.payload,
     metadata |-> [latitude  |-> Rat(s.lat, 1000000),
                   longitude |-> Rat(s.lon, 1000000),
                   altitude  |-> Rat(s.alt, 100),
                   quality   |-> [signalStrength |-> s.q]]]

\* C5: a binary frame with wrong magic bytes or an unrecognized packet type
\* stores no Reading, reaches no service call, and leaves the worker of its
\* connection running (the process is alive, the loop goes on).
C5_BadFrameDroppedConnectionKept ==
    (ev.op = "binary" /\ (WrongMagic(ev.data) \/ UnrecognizedType(ev.data)))
        => /\ ev.stored = 0
           /\ ev.call = NoCall
           /\ ev.outcome = "dropped"
           /\ ~crashed
           /\ workers[ev.conn].state = "running"

C5_Witness ==
    /\ ev.op = "binary"
    /\ ev.data = BadMagic(EncodeWire(SpecimenNorth))
    /\ ev.outcome = "dropped"
    /\ Len(sensorData) = 1
    /\ WorkerRunning(ev.conn)

\* C6: for every frame shorter than the fixed header (magic, reserved byte,
\* packet type, scan id, metadata block) decoding stops before any service
\* call: no Reading, no read past the end of the buffer (no panic), the
\* handler returns and the process lives on.
C6_ShortFrameIsMalformed ==
    (ev.op = "binary" /\ Len(ev.data) < PackedHeaderLen)
        => /\ ev.outcome # "panic"
           /\ ev.call = NoCall
           /\ ev.stored = 0
           /\ ~crashed

\* C7: a valid frame of packet type 1, 2 or 3 for an in_progress scan stores
\* exactly one Reading of the mapped sensor type (unless the database
\* fails); a frame of any other type is dropped and stores nothing.
C7_EachSensorTypeIsStored ==
    \A s \in Specimens :
        ( /\ ev.op = "binary"
          /\ ev.data = EncodeWire(s)
          /\ s.scan \in DOMAIN scans
          /\ scans[s.scan] = ScanStatusInProgress
          /\ ev.err # "persistence failure" )
        => IF s.ptype \in {1, 2, 3}
           THEN /\ ev.stored = 1
                /\ sensorData[Len(sensorData)].SensorType = SensorTypeOf(s.ptype)
                /\ sensorData[Len(sensorData)].ScanID = s.scan
           ELSE ev.stored = 0 /\ ev.outcome = "dropped"

\* C8 as stated: a frame laid out as magic, reserved byte, packet type,
\* scan id, metadata block, payload, each right after the other, is decoded
\* to the fields it was built from.
C8_PackedLayoutDecoded ==
    \A s \in {SpecimenNorth, SpecimenLong} :
        (ev.op = "binary" /\ ev.data = EncodePacked(s)) => ev.call = CallOf(s)

\* C8 amended: for a 0x01 frame of at least 40 bytes the decoder reads the
\* packet type at byte 3, the scan id at bytes 8-23, latitude, longitude and
\* altitude at bytes 24-27, 28-31 and 32-35, the signal quality at byte 36,
\* and the payload is every byte from offset 40 on.
C8_WireLayoutDecoded ==
    /\ \A s \in Specimens :
          (ev.op = "binary" /\ ev.data = EncodeWire(s) /\ s.ptype = 1)
              => ev.call = CallOf(s)
    /\ (ev.op = "binary" /\ ev.call # NoCall)
          => /\ Len(ev.data) >= 40
             /\ ev.data[4] = 1
             /\ ev.call.scanID = SubSeq(ev.data, 9, 24)
             /\ ev.call.metadata.quality.signalStrength = ev.data[37]
             /\ ev.call.data = SubSeq(ev.data, 41, Len(ev.data))

C8_Witness ==
    /\ ev.op = "binary"
    /\ ev.data = EncodeWire(SpecimenNorth)
    /\ ev.call = CallOf(SpecimenNorth)
    /\ ev.call.data = <<7, 8>>
    /\ ev.stored = 1

Int32Samples == {MinInt32, -33868800, -256, -1, 0, 1, 255, 12345, 50450000, MaxInt32}

\* C9: decoding recovers the encoded integers exactly, negative ones
\* included: latitude and longitude are n / 10^6, altitude is n / 10^2.
C9_ScaledCoordinatesRoundTrip ==
    /\ \A n \in Int32Samples : beInt32(BE32(n), 0) = n
    /\ \A s \in Specimens :
          (ev.op = "binary" /\ ev.data = EncodeWire(s) /\ ev.call # NoCall)
              => /\ ev.call.metadata.latitude  = [num |-> s.lat, den |-> 1000000]
                 /\ ev.call.metadata.longitude = [num |-> s.lon, den |-> 1000000]
                 /\ ev.call.metadata.altitude  = [num |-> s.alt, den |-> 100]

C9_Witness ==
    /\ ev.op = "binary"
    /\ ev.data = EncodeWire(SpecimenSouth)
    /\ ev.call # NoCall
    /\ ev.call.metadata.latitude = [num |-> -33868800, den |-> 1000000]
    /\ ev.call.metadata.longitude.num = MinInt32
    /\ ev.call.metadata.altitude = [num |-> -1, den |-> 100]

ScanNotActive == "cannot save data for inactive scan"

\* C10: for a scan that exists and is not in_progress, ProcessSensorData
\* and SaveRawScanData store nothing and return the ScanNotActive
\* rejection.
C10_InactiveScanRejectsData ==
    /\ ( /\ ev.op = "binary"
         /\ ev.call # NoCall
         /\ ev.call.scanID \in DOMAIN scans
         /\ scans[ev.call.scanID] # ScanStatusInProgress )
       => (ev.stored = 0 /\ ev.err = ScanNotActive)
    /\ ( /\ ev.op = "SaveRawScanData"
         /\ ev.scan \in DOMAIN scans
         /\ scans[ev.scan] # ScanStatusInProgress )
       => (ev.stored = 0 /\ ev.err = ScanNotActive)

(***************************************************************************)
(* Properties of the detection run over the stored Readings of a scan.     *)
(***************************************************************************)
\* The rows of table sensor_data that belong to one scan.
ReadingsOf(scanID) == SelectSeq(sensorData, LAMBDA r : r.ScanID = scanID)

\* C16: FuseAndDetect on a scan that has no Reading of any sensor type
\* persists no Detection (the classification of "no evidence" is 0, below
\* the confidence threshold).
C16_NoEvidenceNoDetection ==
    ( /\ ev.op = "FuseAndDetect"
      /\ ev.scan \in DOMAIN scans
      /\ ReadingsOf(ev.scan) = <<>> )
    => ev.saved = 0

\* C20: a Detection that FuseAndDetect persists for a scan lies at the
\* location of Readings of that scan (those of the cell that produced it).
C20_DetectionAtReadingLocation ==
    ( /\ ev.op = "FuseAndDetect"
      /\ ev.saved > 0
      /\ ReadingsOf(ev.scan) # <<>> )
    => \E i \in DOMAIN sensorData :
          /\ sensorData[i].ScanID = ev.scan
          /\ sensorData[i].Latitude = detectedObjects[Len(detectedObjects)].Latitude
          /\ sensorData[i].Longitude = detectedObjects[Len(detectedObjects)].Longitude

(***************************************************************************)
(* The Fusion Engine and the Classifier as a unit: performKalmanFiltering, *)
(* applyBayesianNetwork and detectSuspiciousRegions applied in turn to a   *)
(* spatial grid.  A cell is a map from the sensor types present to their   *)
(* data; the data of a sensor type is the list of its estimates (value and *)
(* variance in thousandths), possibly empty.  createSpatialGrid builds     *)
(* only cells with all three keys; the functions accept any map.           *)
(***************************************************************************)
SensorTypes == {"lidar", "magnetic", "acoustic"}

NoReadings == <<>>
LidarEstimate    == << [value |-> 2000, variance |-> 100] >>
MagneticEstimate == << [value |-> 2200, variance |-> 200] >>
MagneticEqualVar == << [value |-> 2200, variance |-> 100] >>
AcousticEstimate == << [value |-> 1900, variance |-> 300] >>

SampleData(t) ==
    CASE t = "lidar"    -> {NoReadings, LidarEstimate}
      [] t = "magnetic" -> {NoReadings, MagneticEstimate, MagneticEqualVar}
      [] t = "acoustic" -> {NoReadings, AcousticEstimate}

SampleCells ==
    UNION { { c \in [T -> UNION {SampleData(t) : t \in SensorTypes}] :
                \A t \in T : c[t] \in SampleData(t) }
            : T \in SUBSET SensorTypes }

ClassifyKeys == { SamplePointKey, <<"50.450000", "30.523400">> }

SampleGrids == UNION { [K -> SampleCells] : K \in SUBSET ClassifyKeys }

InitClassify ==
    /\ spatialGrid \in SampleGrids
    /\ fusedGrid = EmptyMap
    /\ classifiedGrid = EmptyMap
    /\ emitted = <<>>
    /\ emitPc = "grid"
    /\ InitStores
    /\ InitWs
    /\ InitDev
    /\ ev = NoEvent

KalmanFilter ==
    /\ emitPc = "grid"
    /\ fusedGrid' = performKalmanFiltering(spatialGrid)
    /\ emitPc' = "filtered"
    /\ UNCHANGED <<spatialGrid, classifiedGrid, emitted, storeVars, wsVars, devVars, ev>>

Classify ==
    /\ emitPc = "filtered"
    /\ classifiedGrid' = applyBayesianNetwork(fusedGrid)
    /\ emitPc' = "classified"
    /\ UNCHANGED <<spatialGrid, fusedGrid, emitted, storeVars, wsVars, devVars, ev>>

Detect ==
    /\ emitPc = "classified"
    /\ \E order \in Perms(DOMAIN classifiedGrid) :
          emitted' = detectSuspiciousRegions(classifiedGrid, order)
    /\ emitPc' = "done"
    /\ UNCHANGED <<spatialGrid, fusedGrid, classifiedGrid, storeVars, wsVars, devVars, ev>>

NextClassify == KalmanFilter \/ Classify \/ Detect

SpecClassify == InitClassify /\ [][NextClassify]_vars

Filtered == emitPc \in {"filtered", "classified", "done"}
Classified == emitPc \in {"classified", "done"}

\* The sensor types that contributed readings to cell k.
Contributing(k) ==
    { t \in DOMAIN spatialGrid[k] : spatialGrid[k][t] # NoReadings }

FilteredKey(t) ==
    CASE t = "lidar" -> "lidar_filtered"
      [] t = "magnetic" -> "magnetic_filtered"
      [] t = "acoustic" -> "acoustic_filtered"

C17_FusedIffTwoContributors ==
    Filtered =>
        \A k \in DOMAIN fusedGrid :
            /\ \A t \in SensorTypes :
                  FilteredKey(t) \in DOMAIN fusedGrid[k] <=> t \in Contributing(k)
            /\ "fused_lidar_magnetic" \in DOMAIN fusedGrid[k]
                  <=> Cardinality(Contributing(k)) >= 2

\* C18: the fused estimate of lidar estimate (x1, P1) and magnetic estimate
\* (x2, P2) has variance P1*P2/(P1+P2) and mean (x1*P2 + x2*P1)/(P1+P2)
\* (written without division).
C18_InverseVarianceFusion ==
    Filtered =>
        \A k \in DOMAIN fusedGrid :
            ( /\ "fused_lidar_magnetic" \in DOMAIN fusedGrid[k]
              /\ Len(spatialGrid[k]["lidar"]) = 1
              /\ Len(spatialGrid[k]["magnetic"]) = 1 )
            => LET l == spatialGrid[k]["lidar"][1]
                   m == spatialGrid[k]["magnetic"][1]
                   f == fusedGrid[k]["fused_lidar_magnetic"]
               IN  /\ {"mean", "variance"} \subseteq DOMAIN f
                   /\ f["variance"] * (l.variance + m.variance) = l.variance * m.variance
                   /\ f["mean"] * (l.variance + m.variance)
                         = l.value * m.variance + m.value * l.variance

\* C19: a classification carries object type and danger level only if its
\* mine probability is strictly above 0.8; at 0.8 or below it carries
\* neither.
C19_PromotionOnlyAboveThreshold ==
    Classified =>
        \A k \in DOMAIN classifiedGrid :
            LET c == classifiedGrid[k]
            IN  IF c["mine_probability"] > 800
                THEN {"object_type", "danger_level"} \subseteq DOMAIN c
                ELSE DOMAIN c = {"mine_probability"}

\* C19 witness: a cell classified at exactly 0.8 (acoustic evidence alone)
\* has neither field, and its Detection gets the defaults.
C19_Witness ==
    /\ emitPc = "done"
    /\ \E k \in DOMAIN classifiedGrid :
          /\ DOMAIN spatialGrid[k] = {"acoustic"}
          /\ classifiedGrid[k] = [mine_probability |-> 800]
          /\ \E i \in DOMAIN emitted :
                /\ emitted[i].Confidence = 800
                /\ emitted[i].ObjectType = "unknown"
                /\ emitted[i].DangerLevel = 3

(***************************************************************************)
(* Aggregation: GeospatialStorage queries, GeospatialService read paths,   *)
(* the HTTP handlers in front of them, and the SQL functions that          *)
(* materialize heatmap_data and time_series_aggregations.                  *)
(*                                                                         *)
(* A timestamp is a number of minutes.  A Reading here carries the         *)
(* Timestamp column next to the columns used above.                        *)
(***************************************************************************)

\* The width PostgreSQL reads from an interval text, in minutes.
IntervalMinutes(text) ==
    CASE text = "1 minute" -> 1
      [] text = "5 minutes" -> 5
      [] text = "7 minutes" -> 7
      [] text = "10 minutes" -> 10
      [] text = "15 minutes" -> 15
      [] text = "30 minutes" -> 30
      [] text = "1 hour" -> 60
      [] text = "1 day" -> 1440

\* time_bucket(width, timestamp): the start of the bucket holding it.
TimeBucket(width, ts) == ts - (ts % width)

\* validIntervals of GetTemporalAggregation and of the HTTP handler.
validIntervals ==
    {"1 minute", "5 minutes", "10 minutes", "15 minutes", "30 minutes", "1 hour", "1 day"}

\* h3_lat_lng_to_cell(lat, lng, resolution): the cell of the point at that
\* resolution.  Cells are nested squares here, with an edge in
\* micro-degrees that shrinks as the resolution grows.
CellEdge(resolution) ==
    CASE resolution = 7 -> 16000
      [] resolution = 8 -> 4000
      [] resolution = 9 -> 2000
      [] resolution = 10 -> 500
      [] OTHER -> 1000

h3_lat_lng_to_cell(lat, lng, resolution) ==
    <<resolution, lat.num \div CellEdge(resolution), lng.num \div CellEdge(resolution)>>

\* AVG over the rows of a group, as the rational sum / count.
AvgOf(rows, Field(_)) ==
    Rat(SumSeq([i \in 1..Len(rows) |-> Field(rows[i]).num]) , Len(rows))

LatOf(r) == r.Latitude
LonOf(r) == r.Longitude
AltOf(r) == r.Altitude

\* The rows of sensor_data selected by `scan_id = $1 AND sensor_type = $2
\* AND timestamp BETWEEN $3 AND $4`.
InWindow(table, scanID, sensorType, startTime, endTime) ==
    SelectSeq(table, LAMBDA r :
        /\ r.ScanID = scanID
        /\ r.SensorType = sensorType
        /\ r.Timestamp >= startTime
        /\ r.Timestamp <= endTime)

\* GeospatialStorage.GetTemporalAggregation.
GetTemporalAggregation(table, scanID, sensorType, startTime, endTime, timeInterval) ==
    IF timeInterval \notin validIntervals
    THEN [err |-> "invalid time interval", rows |-> {}]
    ELSE LET sel == InWindow(table, scanID, sensorType, startTime, endTime)
             width == IntervalMinutes(timeInterval)
             buckets == { TimeBucket(width, sel[i].Timestamp) : i \in DOMAIN sel }
         IN  [err |-> "",
              rows |-> { LET g == SelectSeq(sel, LAMBDA r : TimeBucket(width, r.Timestamp) = b)
                         IN  [time |-> b, reading_count |-> Len(g),
                              avg_altitude |-> AvgOf(g, AltOf),
                              avg_latitude |-> AvgOf(g, LatOf),
                              avg_longitude |-> AvgOf(g, LonOf)]
                         : b \in buckets }]

\* The H3 resolution GetSpatialHeatmap derives from gridSize (metres).
h3Resolution(gridSize) ==
    IF gridSize <= 50 THEN 10
    ELSE IF gridSize <= 500 THEN 8
    ELSE IF gridSize <= 1000 THEN 7
    ELSE 9

\* GeospatialStorage.GetSpatialHeatmap.
GetSpatialHeatmap(table, scanID, sensorType, startTime, endTime, gridSize) ==
    LET sel == InWindow(table, scanID, sensorType, startTime, endTime)
        res == h3Resolution(gridSize)
        CellOf(r) == h3_lat_lng_to_cell(r.Latitude, r.Longitude, res)
        cells == { CellOf(sel[i]) : i \in DOMAIN sel }
    IN  [err |-> "",
         rows |-> { LET g == SelectSeq(sel, LAMBDA r : CellOf(r) = c)
                    IN  [cell |-> c, point_count |-> Len(g),
                         center_lat |-> AvgOf(g, LatOf),
                         center_lon |-> AvgOf(g, LonOf)]
                    : c \in cells }]

(***************************************************************************)
(* GeospatialService read paths.  A scan's StartTime..EndTime is taken to  *)
(* span every timestamp of the model (0 .. DayEnd).                        *)
(***************************************************************************)
DayEnd == 1440

SvcGetSpatialHeatmap(scanID, sensorType, startTime, endTime, gridSize) ==
    IF scanID \notin DOMAIN scans THEN [err |-> "scan not found", rows |-> {}]
    ELSE GetSpatialHeatmap(sensorData, scanID, sensorType, startTime, endTime, gridSize)

SvcGetTemporalAnalysis(scanID, sensorType, startTime, endTime, timeInterval) ==
    IF scanID \notin DOMAIN scans THEN [err |-> "scan not found", rows |-> {}]
    ELSE GetTemporalAggregation(sensorData, scanID, sensorType, startTime, endTime,
                                timeInterval)

GenerateReportData(scanID) ==
    IF scanID \notin DOMAIN scans THEN [err |-> "scan not found", rows |-> {}]
    ELSE IF scans[scanID] # ScanStatusCompleted
    THEN [err |-> "report can be generated only for completed scans", rows |-> {}]
    ELSE [err |-> "",
          rows |-> { [sensor |-> t,
                      data |-> GetTemporalAggregation(sensorData, scanID, t, 0, DayEnd,
                                                      "5 minutes").rows]
                     : t \in {"lidar", "magnetic", "acoustic"} }]

(***************************************************************************)
(* ports/api GeospatialHandler.  strconv.ParseFloat on the grid_size       *)
(* strings the model uses.                                                 *)
(***************************************************************************)
ParseGridSize(str) ==
    CASE str = "-5"   -> [ok |-> TRUE, value |-> -5]
      [] str = "0"    -> [ok |-> TRUE, value |-> 0]
      [] str = "30"   -> [ok |-> TRUE, value |-> 30]
      [] str = "750"  -> [ok |-> TRUE, value |-> 750]
      [] str = "5000" -> [ok |-> TRUE, value |-> 5000]
      [] OTHER        -> [ok |-> FALSE, value |-> 0]

defaultGridSize == 100

HttpResult(op, scanID, param, used, code, r) ==
    [op |-> op, scan |-> scanID, param |-> param, used |-> used, code |-> code,
     err |-> r.err, rows |-> r.rows]

NoRows(why) == [err |-> why, rows |-> {}]

\* GET /geo/scans/{scanID}/heatmap?type=&start=&end=&grid_size=
HttpGetSpatialHeatmap(scanID, sensorType, startTime, endTime, gridSizeStr) ==
    /\ LET parsed == ParseGridSize(gridSizeStr)
           gridSize == IF gridSizeStr # "" /\ parsed.ok /\ parsed.value > 0
                       THEN parsed.value ELSE defaultGridSize
           r == SvcGetSpatialHeatmap(scanID, sensorType, startTime, endTime, gridSize)
       IN  ev' = IF sensorType = ""
                 THEN HttpResult("GetSpatialHeatmap", scanID, gridSizeStr, 0, 400,
                                 NoRows("Sensor type is required"))
                 ELSE HttpResult("GetSpatialHeatmap", scanID, gridSizeStr,
                                 h3Resolution(gridSize),
                                 IF r.err # "" THEN 500 ELSE 200, r)
    /\ UNCHANGED <<emitVars, devVars, storeVars, wsVars>>

defaultInterval == "5 minutes"

\* GET /geo/scans/{scanID}/timeline?type=&start=&end=&interval=
HttpGetTemporalAnalysis(scanID, sensorType, startTime, endTime, intervalParam) ==
    /\ LET interval == IF intervalParam = "" THEN defaultInterval ELSE intervalParam
       IN  ev' = IF sensorType = ""
                 THEN HttpResult("GetTemporalAnalysis", scanID, intervalParam, "", 400,
                                 NoRows("Sensor type is required"))
                 ELSE IF interval \notin validIntervals
                 THEN HttpResult("GetTemporalAnalysis", scanID, intervalParam, "", 400,
                                 NoRows("Invalid interval"))
                 ELSE LET r == SvcGetTemporalAnalysis(scanID, sensorType, startTime,
                                                      endTime, interval)
                      IN  HttpResult("GetTemporalAnalysis", scanID, intervalParam, interval,
                                     IF r.err # "" THEN 500 ELSE 200, r)
    /\ UNCHANGED <<emitVars, devVars, storeVars, wsVars>>

\* GeospatialService.GetTemporalAnalysis called by another component of
\* the process, with no handler in front.
CallGetTemporalAnalysis(scanID, sensorType, startTime, endTime, timeInterval) ==
    /\ LET r == SvcGetTemporalAnalysis(scanID, sensorType, startTime, endTime, timeInterval)
       IN  ev' = HttpResult("SvcGetTemporalAnalysis", scanID, timeInterval, timeInterval,
                            0, r)
    /\ UNCHANGED <<emitVars, devVars, storeVars, wsVars>>

\* GET /geo/scans/{scanID}/report
HttpGenerateReport(scanID) ==
    /\ LET r == GenerateReportData(scanID)
       IN  ev' = HttpResult("GenerateReportData", scanID, "", "5 minutes",
                            IF r.err # "" THEN 500 ELSE 200, r)
    /\ UNCHANGED <<emitVars, devVars, storeVars, wsVars>>

\* Readings with their Timestamp column, as SaveBatch stores them.
TimedReading(scanID, ts, lat, lon) ==
    [ScanID |-> scanID, SensorType |-> "lidar", Timestamp |-> ts,
     Latitude |-> Rat(lat, 1000000), Longitude |-> Rat(lon, 1000000),
     Altitude |-> Rat(12345, 100),
     Data |-> ProcessLidarData(<<>>),
     QualityIndicators |-> [signalStrength |-> 200]]

TimedReadings ==
    { TimedReading(ScanA, 3, 50450000, 30523400),
      TimedReading(ScanA, 8, 50449000, 30523400),
      TimedReading(ScanB, 3, 50450000, 30523400) }

\* PostgresSensorDataRepository.SaveBatch of one Reading.
StoreReading(r) ==
    /\ Len(sensorData) < MaxReadings
    /\ sensorData' = SaveBatch(sensorData, <<r>>, TRUE).table
    /\ ev' = [op |-> "SaveBatch"]
    /\ UNCHANGED <<emitVars, devVars, scans, detectedObjects, rawObjects, aggVars, wsVars>>

Windows == { <<0, DayEnd>>, <<5, DayEnd>> }
GridSizeParams == {"", "abc", "-5", "0", "30", "750", "5000"}
IntervalParams == {"", "5 minutes", "1 hour", "7 minutes"}

InitRead ==
    /\ InitEmitIdle
    /\ scans = [s \in ScanIDs |-> IF s = ScanA THEN ScanStatusInProgress
                                              ELSE ScanStatusCompleted]
    /\ sensorData = <<>>
    /\ detectedObjects = <<>>
    /\ rawObjects = <<>>
    /\ heatmapData = <<>>
    /\ timeSeriesAggregations = <<>>
    /\ InitWs
    /\ InitDev
    /\ ev = NoEvent

NextRead ==
    \/ \E r \in TimedReadings : StoreReading(r)
    \/ \E status \in ScanStatuses : ScanUpdateStatus(ScanB, status)
    \/ \E scanID \in ScanIDs \cup {ScanX}, t \in {"lidar", ""}, w \in Windows,
          g \in GridSizeParams : HttpGetSpatialHeatmap(scanID, t, w[1], w[2], g)
    \/ \E scanID \in ScanIDs \cup {ScanX}, t \in {"lidar", ""}, w \in Windows,
          i \in IntervalParams : HttpGetTemporalAnalysis(scanID, t, w[1], w[2], i)
    \/ \E scanID \in ScanIDs \cup {ScanX}, w \in Windows,
          i \in IntervalParams \ {""} :
             CallGetTemporalAnalysis(scanID, "lidar", w[1], w[2], i)
    \/ \E scanID \in ScanIDs \cup {ScanX} : HttpGenerateReport(scanID)

SpecRead == InitRead /\ [][NextRead]_vars

ReadOps ==
    {"GetSpatialHeatmap", "GetTemporalAnalysis", "SvcGetTemporalAnalysis",
     "GenerateReportData"}

\* C11: a report or aggregation read for a scan that exists and is not
\* completed returns an error and no aggregate.
C11_ReadPathsNeedCompletedScan ==
    ( /\ ev.op \in ReadOps
      /\ ev.scan \in DOMAIN scans
      /\ scans[ev.scan] # ScanStatusCompleted )
    => (ev.err # "" /\ ev.rows = {})

\* C13: a heatmap request whose grid_size is unparseable, non-positive or
\* beyond the sizes that map to a resolution is rejected as an invalid
\* parameter: no resolution is chosen and no data returned.
C13_UnsupportedGridSizeRejected ==
    ( /\ ev.op = "GetSpatialHeatmap"
      /\ ev.err # "Sensor type is required"
      /\ ev.param \in {"abc", "-5", "0", "5000"} )
    => (ev.code = 400 /\ ev.used = 0 /\ ev.rows = {})

(***************************************************************************)
(* Materialized aggregation: the functions update_heatmap_aggregation and  *)
(* update_time_series_aggregation of the schema, and the tables            *)
(* heatmap_data and time_series_aggregations they maintain.  A table is    *)
(* the function from each stored row to the number of copies of it; the    *)
(* columns id (gen_random_uuid) and created_at (NOW) are left out, and the *)
(* statistics of data->>'value' are NULL because no stored payload has a   *)
(* 'value' member.  A call runs as one transaction.                        *)
(***************************************************************************)
NULL == "NULL"

\* DELETE FROM heatmap_data WHERE scan_id = p_scan_id AND sensor_type =
\* p_sensor_type, with every row kept instead.
KeepAllHeatmapRows(table, p_scan_id, p_sensor_type) == table

\* DELETE FROM heatmap_data WHERE scan_id = p_scan_id AND sensor_type = p_sensor_type.
RemainingHeatmapRows(table, p_scan_id, p_sensor_type) ==
    [row \in { x \in DOMAIN table :
                 ~(x.scan_id = p_scan_id /\ x.sensor_type = p_sensor_type) }
        |-> table[row]]

\* DELETE FROM time_series_aggregations WHERE scan_id = p_scan_id AND
\* sensor_type = p_sensor_type AND interval_length = p_interval.
RemainingTimeSeriesRows(table, p_scan_id, p_sensor_type, p_interval) ==
    [row \in { x \in DOMAIN table :
                 ~(/\ x.scan_id = p_scan_id
                   /\ x.sensor_type = p_sensor_type
                   /\ x.interval_length = p_interval) }
        |-> table[row]]

\* INSERT INTO ... SELECT: one more copy of each selected row.
InsertRows(table, rows) ==
    [row \in DOMAIN table \cup rows |->
        (IF row \in DOMAIN table THEN table[row] ELSE 0)
        + (IF row \in rows THEN 1 ELSE 0)]

\* The rows of sensor_data with scan_id = p_scan_id AND sensor_type = p_sensor_type.
ReadingsOfKey(table, p_scan_id, p_sensor_type) ==
    SelectSeq(table, LAMBDA r : r.ScanID = p_scan_id /\ r.SensorType = p_sensor_type)

\* The SELECT of update_heatmap_aggregation: one row for each H3 cell.
HeatmapSelect(table, p_scan_id, p_sensor_type, p_resolution) ==
    LET sel == ReadingsOfKey(table, p_scan_id, p_sensor_type)
        CellOf(r) == h3_lat_lng_to_cell(r.Latitude, r.Longitude, p_resolution)
    IN  { LET g == SelectSeq(sel, LAMBDA r : CellOf(r) = c)
          IN  [scan_id |-> p_scan_id, sensor_type |-> p_sensor_type,
               center_lat |-> AvgOf(g, LatOf), center_lon |-> AvgOf(g, LonOf),
               h3_index |-> c, point_count |-> Len(g), average_value |-> NULL]
          : c \in { CellOf(sel[i]) : i \in DOMAIN sel } }

\* The SELECT of update_time_series_aggregation: one row for each time bucket.
TimeSeriesSelect(table, p_scan_id, p_sensor_type, p_interval) ==
    LET sel == ReadingsOfKey(table, p_scan_id, p_sensor_type)
        width == IntervalMinutes(p_interval)
    IN  { LET g == SelectSeq(sel, LAMBDA r : TimeBucket(width, r.Timestamp) = b)
          IN  [scan_id |-> p_scan_id, sensor_type |-> p_sensor_type,
               time_bucket |-> b, interval_length |-> p_interval,
               reading_count |-> Len(g),
               avg_latitude |-> AvgOf(g, LatOf), avg_longitude |-> AvgOf(g, LonOf),
               avg_altitude |-> AvgOf(g, AltOf),
               min_value |-> NULL, max_value |-> NULL, avg_value |-> NULL,
               std_dev |-> NULL]
          : b \in { TimeBucket(width, sel[i].Timestamp) : i \in DOMAIN sel } }

\* The number of rows stored in a table, copies counted.
RowCount(table) ==
    LET RECURSIVE Sum(_)
        Sum(S) == IF S = {} THEN 0
                  ELSE LET x == CHOOSE y \in S : TRUE IN table[x] + Sum(S \ {x})
    IN  Sum(DOMAIN table)

update_heatmap_aggregation(p_scan_id, p_sensor_type, p_resolution) ==
    \E kept \in {RemainingHeatmapRows(heatmapData, p_scan_id, p_sensor_type)} :
    \E sel \in {HeatmapSelect(sensorData, p_scan_id, p_sensor_type, p_resolution)} :
        /\ heatmapData' = InsertRows(kept, sel)
        /\ ev' = [op |-> "update_heatmap_aggregation", scan |-> p_scan_id,
                  sensorType |-> p_sensor_type, param |-> p_resolution, err |-> "",
                  deleted |-> RowCount(heatmapData) - RowCount(kept),
                  inserted |-> Cardinality(sel)]
        /\ UNCHANGED <<emitVars, devVars, scans, sensorData, detectedObjects, rawObjects,
                       timeSeriesAggregations, wsVars>>

update_time_series_aggregation(p_scan_id, p_sensor_type, p_interval) ==
    \E kept \in {RemainingTimeSeriesRows(timeSeriesAggregations, p_scan_id,
                                         p_sensor_type, p_interval)} :
    \E sel \in {TimeSeriesSelect(sensorData, p_scan_id, p_sensor_type, p_interval)} :
        /\ timeSeriesAggregations' = InsertRows(kept, sel)
        /\ ev' = [op |-> "update_time_series_aggregation", scan |-> p_scan_id,
                  sensorType |-> p_sensor_type, param |-> p_interval, err |-> "",
                  deleted |-> RowCount(timeSeriesAggregations) - RowCount(kept),
                  inserted |-> Cardinality(sel)]
        /\ UNCHANGED <<emitVars, devVars, scans, sensorData, detectedObjects, rawObjects,
                       heatmapData, wsVars>>

Resolutions == {8, 9}
AggIntervals == {"5 minutes", "7 minutes"}

InitAgg ==
    /\ InitEmitIdle
    /\ scans = [s \in ScanIDs |-> IF s = ScanA THEN ScanStatusInProgress
                                              ELSE ScanStatusCompleted]
    /\ sensorData = <<>>
    /\ detectedObjects = <<>>
    /\ rawObjects = <<>>
    /\ heatmapData = <<>>
    /\ timeSeriesAggregations = <<>>
    /\ InitWs
    /\ InitDev
    /\ ev = NoEvent

NextAgg ==
    \/ \E r \in TimedReadings : StoreReading(r)
    \/ \E s \in ScanIDs, res \in Resolutions :
          update_heatmap_aggregation(s, "lidar", res)
    \/ \E s \in ScanIDs, width \in AggIntervals :
          update_time_series_aggregation(s, "lidar", width)

SpecAgg == InitAgg /\ [][NextAgg]_vars

\* The rows of a table that a predicate selects, with their copies.
RowsWhere(table, Match(_)) ==
    [row \in { x \in DOMAIN table : Match(x) } |-> table[row]]

HeatmapKey(row) == <<row.scan_id, row.sensor_type>>
TimeSeriesKey(row) == <<row.scan_id, row.sensor_type, row.interval_length>>

\* The point counts of the rows of a table, copies counted.
CountedReadings(table, Count(_)) ==
    LET RECURSIVE Sum(_)
        Sum(S) == IF S = {} THEN 0
                  ELSE LET x == CHOOSE y \in S : TRUE
                       IN  table[x] * Count(x) + Sum(S \ {x})
    IN  Sum(DOMAIN table)

\* C12: a time-series aggregation run with a bucket width outside the
\* allowed set, over a scan and sensor type that have Readings, fails and
\* writes no row - here for the path update_time_series_aggregation.
C12_InvalidWidthWritesNothing ==
    ( /\ ev.op = "update_time_series_aggregation"
      /\ ev.param \notin validIntervals
      /\ Len(ReadingsOfKey(sensorData, ev.scan, ev.sensorType)) > 0 )
    => /\ ev.err # ""
       /\ ev.inserted = 0
       /\ \A row \in DOMAIN timeSeriesAggregations : row.interval_length \in validIntervals

\* C14: a step of update_heatmap_aggregation for (scan, sensor type), or of
\* update_time_series_aggregation for (scan, sensor type, bucket width),
\* leaves under that key one copy of one row for each cell (bucket) that
\* holds a current Reading of the key, the counts of those rows adding up
\* to the number of those Readings, and leaves the rows of every other key
\* and the other table as they were.
C14_ReplaceSemantics ==
    [][ /\ ev'.op = "update_heatmap_aggregation" =>
            LET key == <<ev'.scan, ev'.sensorType>>
                own == RowsWhere(heatmapData', LAMBDA x : HeatmapKey(x) = key)
                cur == ReadingsOfKey(sensorData', ev'.scan, ev'.sensorType)
            IN  /\ \A row \in DOMAIN own : own[row] = 1
                /\ { row.h3_index : row \in DOMAIN own }
                     = { h3_lat_lng_to_cell(cur[i].Latitude, cur[i].Longitude, ev'.param)
                         : i \in DOMAIN cur }
                /\ Cardinality(DOMAIN own)
                     = Cardinality({ row.h3_index : row \in DOMAIN own })
                /\ CountedReadings(own, LAMBDA x : x.point_count) = Len(cur)
                /\ RowsWhere(heatmapData', LAMBDA x : HeatmapKey(x) # key)
                     = RowsWhere(heatmapData, LAMBDA x : HeatmapKey(x) # key)
                /\ timeSeriesAggregations' = timeSeriesAggregations
        /\ ev'.op = "update_time_series_aggregation" =>
            LET key == <<ev'.scan, ev'.sensorType, ev'.param>>
                own == RowsWhere(timeSeriesAggregations', LAMBDA x : TimeSeriesKey(x) = key)
                cur == ReadingsOfKey(sensorData', ev'.scan, ev'.sensorType)
            IN  /\ \A row \in DOMAIN own : own[row] = 1
                /\ { row.time_bucket : row \in DOMAIN own }
                     = { TimeBucket(IntervalMinutes(ev'.param), cur[i].Timestamp)
                         : i \in DOMAIN cur }
                /\ Cardinality(DOMAIN own)
                     = Cardinality({ row.time_bucket : row \in DOMAIN own })
                /\ CountedReadings(own, LAMBDA x : x.reading_count) = Len(cur)
                /\ RowsWhere(timeSeriesAggregations', LAMBDA x : TimeSeriesKey(x) # key)
                     = RowsWhere(timeSeriesAggregations, LAMBDA x : TimeSeriesKey(x) # key)
                /\ heatmapData' = heatmapData
      ]_vars

\* C14 witness: a heatmap run that replaced rows of its key (a second run)
\* while rows of another scan are stored, with the time series table
\* holding rows of two bucket widths of one scan.
C14_Witness ==
    /\ ev.op = "update_heatmap_aggregation"
    /\ ev.deleted > 0
    /\ ev.inserted > 0
    /\ \E row \in DOMAIN heatmapData : row.scan_id # ev.scan
    /\ \E r1, r2 \in DOMAIN timeSeriesAggregations :
          /\ r1.scan_id = r2.scan_id
          /\ r1.interval_length # r2.interval_length

\* The fields of a Detection other than its verification status.
CreatedFields(obj) ==
    <<obj.ScanID, obj.Latitude, obj.Longitude, obj.Depth, obj.ObjectType,
      obj.Confidence, obj.DangerLevel>>

\* C21: every detection-store operation leaves the scan id, latitude,
\* longitude, depth, object type, confidence and danger level of every
\* persisted Detection as they were.
C21_DetectionImmutableButVerification ==
    [][ \A id \in DOMAIN detectedObjects :
           id \in DOMAIN detectedObjects'
           /\ CreatedFields(detectedObjects'[id]) = CreatedFields(detectedObjects[id])
      ]_vars

(***************************************************************************)
(* PostgresSensorDataRepository.SaveBatch statement by statement: BeginTx, *)
(* PrepareContext, for each item json.Marshal twice and stmt.ExecContext,  *)
(* then Commit; `defer tx.Rollback()` discards the rows inserted in the    *)
(* transaction on every return before a successful Commit.  `fault` names  *)
(* the statement that fails, if any.                                       *)
(***************************************************************************)
NoFault == [at |-> "none", item |-> 0]

Faults(n) ==
    { NoFault, [at |-> "begin", item |-> 0], [at |-> "prepare", item |-> 0],
      [at |-> "commit", item |-> 0] }
    \cup { [at |-> a, item |-> i] : a \in {"marshal", "exec"}, i \in 1..n }

\* The mutant of Rollback: the rows inserted before the failure stay.
RollbackKeepsRows(table, pending) == table \o pending

\* tx.Rollback(): the rows inserted in the transaction are discarded.
Rollback(table, pending) == table

\* tx.Commit() succeeding: the rows inserted in the transaction are stored.
Commit(table, pending) == table \o pending

SaveBatchTx(table, batch, fault) ==
    IF Len(batch) = 0 THEN [err |-> "", table |-> table]
    ELSE IF fault.at = "begin"
    THEN [err |-> "failed to begin transaction", table |-> table]
    ELSE IF fault.at = "prepare"
    THEN [err |-> "failed to prepare statement", table |-> Rollback(table, <<>>)]
    ELSE LET failsAtItem == fault.at \in {"marshal", "exec"} /\ fault.item <= Len(batch)
             executed == IF failsAtItem THEN fault.item - 1 ELSE Len(batch)
             pending == SubSeq(batch, 1, executed)
         IN  IF failsAtItem
             THEN [err |-> IF fault.at = "marshal" THEN "failed to marshal sensor data"
                                                   ELSE "failed to execute statement",
                   table |-> Rollback(table, pending)]
             ELSE IF fault.at = "commit"
             THEN [err |-> "failed to commit transaction",
                   table |-> Rollback(table, pending)]
             ELSE [err |-> "", table |-> Commit(table, pending)]

\* A caller flushes `batch` through SaveBatch.
CallSaveBatch(batch, fault) ==
    \E r \in {SaveBatchTx(sensorData, batch, fault)} :
        /\ Len(r.table) <= MaxReadings
        /\ sensorData' = r.table
        /\ ev' = [op |-> "SaveBatchTx", batch |-> batch, fault |-> fault, err |-> r.err,
                  stored |-> Len(r.table) - Len(sensorData)]
        /\ UNCHANGED <<emitVars, devVars, scans, detectedObjects, rawObjects, aggVars, wsVars>>

\* handleBinaryMessage on one frame while the database answers the first
\* flush attempt with Head(outcomes) and would answer later attempts with
\* the rest.  The handler calls ProcessSensorData once and logs its error.
HandleFrame(data, outcomes) ==
    \E r \in {handleBinaryMessage(data, sensorData, Head(outcomes))} :
        /\ ~r.panic
        /\ Len(r.table) <= MaxReadings
        /\ sensorData' = r.table
        /\ ev' = [op |-> "frame", outcomes |-> outcomes, outcome |-> r.outcome,
                  err |-> r.err, called |-> r.call # NoCall, attempts |-> 1,
                  stored |-> Len(r.table) - Len(sensorData)]
        /\ UNCHANGED <<emitVars, devVars, scans, detectedObjects, rawObjects, aggVars, wsVars>>

MaxBatch == 2

FlushReadings ==
    { SampleReading(1, ScanA, "lidar"), SampleReading(2, ScanA, "magnetic") }

Batches == UNION { [1..n -> FlushReadings] : n \in 0..MaxBatch }

FlushOutcomes == { <<TRUE>>, <<FALSE, TRUE>>, <<FALSE, FALSE, FALSE>> }

FlushFrames == { EncodeWire(SpecimenNorth), BadMagic(EncodeWire(SpecimenNorth)) }

InitFlush ==
    /\ InitEmitIdle
    /\ scans = [s \in ScanIDs |-> IF s = ScanA THEN ScanStatusInProgress
                                              ELSE ScanStatusCompleted]
    /\ sensorData = <<>>
    /\ detectedObjects = <<>>
    /\ rawObjects = <<>>
    /\ heatmapData = <<>>
    /\ timeSeriesAggregations = <<>>
    /\ InitWs
    /\ InitDev
    /\ ev = NoEvent

NextFlush ==
    \/ \E batch \in Batches : \E fault \in Faults(MaxBatch) : CallSaveBatch(batch, fault)
    \/ \E data \in FlushFrames, outcomes \in FlushOutcomes : HandleFrame(data, outcomes)

SpecFlush == InitFlush /\ [][NextFlush]_vars

\* C24: a SaveBatch call that returns an error stored none of its batch,
\* whichever statement failed, and one that returns no error stored every
\* Reading of the batch, in order, after the rows already there; a call in
\* which a statement failed returns an error.
C24_FlushIsAllOrNothing ==
    [][ ev'.op = "SaveBatchTx" =>
          /\ ev'.err # "" => sensorData' = sensorData
          /\ ev'.err = "" => sensorData' = sensorData \o ev'.batch
          /\ ( /\ ev'.batch # <<>>
                /\ \/ ev'.fault.at \in {"begin", "prepare", "commit"}
                   \/ ev'.fault.item \in 1..Len(ev'.batch) )
             => ev'.err # "" ]_vars

\* C24 witness: a batch of two whose second insert failed after the first
\* was executed has just been flushed, with an earlier batch in the table.
C24_Witness ==
    /\ ev.op = "SaveBatchTx"
    /\ Len(ev.batch) = 2
    /\ ev.fault = [at |-> "exec", item |-> 2]
    /\ ev.err # ""
    /\ Len(sensorData) > 0

\* C25: a frame whose first flush attempt fails while the next attempt
\* would succeed ends with its Reading stored.
C25_FailedFlushIsRetried ==
    ( /\ ev.op = "frame"
      /\ ev.called
      /\ ev.outcomes = <<FALSE, TRUE>> )
    => (ev.stored = 1 /\ ev.attempts = 2)

\* C29: the H3 resolution a heatmap request ran at is never finer
\* (numerically higher) than the resolution chosen for any smaller grid size.
C29_ResolutionMonotoneInGridSize ==
    ( /\ ev.op = "GetSpatialHeatmap"
      /\ ev.err # "Sensor type is required"
      /\ ParseGridSize(ev.param).ok
      /\ ParseGridSize(ev.param).value > 0 )
    => \A str \in GridSizeParams :
          ( /\ ParseGridSize(str).ok
            /\ ParseGridSize(str).value > 0
            /\ ParseGridSize(str).value < ParseGridSize(ev.param).value )
          => ev.used <= h3Resolution(ParseGridSize(str).value)

\* C28: a HandleConnection call that starts no worker (Unauthorized, the
\* status update failed, or the upgrade failed) leaves the stored device
\* status and the connection registry as they were.
C28_FailedConnectChangesNothing ==
    [][ (ev'.op = "connect" /\ ev'.outcome # "Connected")
        => (deviceStatus' = deviceStatus /\ connections' = connections) ]_vars

(***************************************************************************)
(* The device streams of SensorHandler, one worker (goroutine              *)
(* handleMessages) for each accepted connection.  A device sends the       *)
(* frames of Stream(d) in order; a worker takes one frame with             *)
(* conn.ReadMessage, dispatches it, and only then reads again.  A worker   *)
(* record holds the device, whether the goroutine runs, whether the        *)
(* device's end of the stream is still open, the number of frames read     *)
(* and the frame in hand.                                                  *)
(***************************************************************************)
MaxWorkers == 2

StreamDevices == {"dev1", "dev2"}

BinaryMessage(data) == [kind |-> "binary", data |-> data]
TextHeartbeat == [kind |-> "text", data |-> <<"heartbeat">>]
NoFrame == [kind |-> "none", data |-> <<>>]

SpecimenEast == Specimen(1, ScanA, 50450000, 30525400, 12345, 200, <<7, 8>>)

\* What each device sends: dev1 a Reading and then a frame cut after the
\* scan id; dev2 a heartbeat, a 3-byte frame and a Reading.
Stream(d) ==
    IF d = "dev1"
    THEN << BinaryMessage(EncodeWire(SpecimenNorth)),
            BinaryMessage(SubSeq(EncodeWire(SpecimenNorth), 1, 24)) >>
    ELSE << TextHeartbeat,
            BinaryMessage(SubSeq(EncodeWire(SpecimenEast), 1, 3)),
            BinaryMessage(EncodeWire(SpecimenEast)) >>

\* The mutant of NextMessage: the frames come out newest first.
NewestMessage(d, read) == Stream(d)[Len(Stream(d)) - read]

\* conn.ReadMessage: the next frame of the stream, in arrival order.
NextMessage(d, read) == Stream(d)[read + 1]

HandleConnectionWs(d, authOk, upgradeOk) ==
    /\ ~crashed
    /\ Len(workers) < MaxWorkers
    /\ LET upd == UpdateDeviceStatus(deviceStatus, d, DeviceStatusActive)
           c == Len(workers) + 1
       IN  IF ~authOk
           THEN /\ UNCHANGED <<deviceStatus, connections, workers>>
                /\ ev' = [op |-> "connect", dev |-> d, outcome |-> "Unauthorized"]
           ELSE IF upd.err # ""
           THEN /\ UNCHANGED <<deviceStatus, connections, workers>>
                /\ ev' = [op |-> "connect", dev |-> d, outcome |-> "StatusError"]
           ELSE IF ~upgradeOk
           THEN /\ deviceStatus' = upd.table
                /\ UNCHANGED <<connections, workers>>
                /\ ev' = [op |-> "connect", dev |-> d, outcome |-> "UpgradeError"]
           ELSE /\ deviceStatus' = upd.table
                /\ connections' = [k \in DOMAIN connections \cup {d} |->
                                      IF k = d THEN c ELSE connections[k]]
                /\ workers' = Append(workers, [dev |-> d, state |-> "running",
                                               stream |-> "open", read |-> 0,
                                               cur |-> NoFrame])
                /\ ev' = [op |-> "connect", dev |-> d, outcome |-> "Connected"]
    /\ UNCHANGED <<crashed, emitVars, devVars, storeVars>>

\* The device closes its end, or the link drops.
StreamEnds(c) ==
    /\ c \in DOMAIN workers
    /\ workers[c].stream = "open"
    /\ workers' = [workers EXCEPT ![c].stream = "ended"]
    /\ ev' = [op |-> "stream_end", conn |-> c]
    /\ UNCHANGED <<deviceStatus, connections, crashed, emitVars, devVars, storeVars>>

\* conn.ReadMessage returns a frame.
ReadMessage(c) ==
    /\ WorkerRunning(c)
    /\ workers[c].cur = NoFrame
    /\ workers[c].read < Len(Stream(workers[c].dev))
    /\ workers' = [workers EXCEPT ![c].cur = NextMessage(workers[c].dev, workers[c].read),
                                  ![c].read = @ + 1]
    /\ ev' = [op |-> "read", conn |-> c]
    /\ UNCHANGED <<deviceStatus, connections, crashed, emitVars, devVars, storeVars>>

\* The switch of the loop on the frame in hand: handleBinaryMessage or
\* handleTextMessage (heartbeat).  A panic runs the deferred function and
\* ends the process.
DispatchMessage(c) ==
    /\ WorkerRunning(c)
    /\ workers[c].cur # NoFrame
    /\ IF workers[c].cur.kind = "binary"
       THEN \E r \in {handleBinaryMessage(workers[c].cur.data, sensorData, TRUE)} :
               /\ sensorData' = r.table
               /\ ev' = [op |-> "dispatch", conn |-> c, outcome |-> r.outcome]
               /\ IF r.panic
                  THEN /\ connections' = CleanupConnections(c)
                       /\ deviceStatus' = CleanupDeviceStatus(c)
                       /\ workers' = [CleanupWorkers(c) EXCEPT ![c].cur = NoFrame]
                       /\ crashed' = TRUE
                  ELSE /\ workers' = [workers EXCEPT ![c].cur = NoFrame]
                       /\ UNCHANGED <<connections, deviceStatus, crashed>>
       ELSE /\ deviceStatus' = UpdateDeviceStatus(deviceStatus, workers[c].dev,
                                                  DeviceStatusActive).table
            /\ workers' = [workers EXCEPT ![c].cur = NoFrame]
            /\ ev' = [op |-> "dispatch", conn |-> c, outcome |-> "heartbeat"]
            /\ UNCHANGED <<sensorData, connections, crashed>>
    /\ UNCHANGED <<emitVars, devVars, scans, detectedObjects, rawObjects, aggVars>>

\* conn.ReadMessage returns an error once the stream has ended: the loop
\* breaks and the deferred function runs.
ReadMessageError(c) ==
    /\ WorkerRunning(c)
    /\ workers[c].cur = NoFrame
    /\ workers[c].stream = "ended"
    /\ connections' = CleanupConnections(c)
    /\ deviceStatus' = CleanupDeviceStatus(c)
    /\ workers' = CleanupWorkers(c)
    /\ ev' = [op |-> "closed", conn |-> c]
    /\ UNCHANGED <<crashed, emitVars, devVars, storeVars>>

InitConn ==
    /\ InitEmitIdle
    /\ scans = [s \in ScanIDs |-> IF s = ScanA THEN ScanStatusInProgress
                                              ELSE ScanStatusCompleted]
    /\ sensorData = <<>>
    /\ detectedObjects = <<>>
    /\ rawObjects = <<>>
    /\ heatmapData = <<>>
    /\ timeSeriesAggregations = <<>>
    /\ deviceStatus = [d \in StreamDevices |-> DeviceStatusInactive]
    /\ connections = EmptyMap
    /\ workers = <<>>
    /\ crashed = FALSE
    /\ InitDev
    /\ ev = NoEvent

NextConn ==
    \/ \E d \in StreamDevices, authOk \in BOOLEAN, upgradeOk \in BOOLEAN :
          HandleConnectionWs(d, authOk, upgradeOk)
    \/ \E c \in 1..MaxWorkers : StreamEnds(c)
    \/ \E c \in 1..MaxWorkers : ReadMessage(c)
    \/ \E c \in 1..MaxWorkers : DispatchMessage(c)
    \/ \E c \in 1..MaxWorkers : ReadMessageError(c)

SpecConn == InitConn /\ [][NextConn]_vars

\* DispatchMessage(c) can be taken exactly when this holds, and taking it
\* changes workers.
DispatchEnabled(c) == WorkerRunning(c) /\ workers[c].cur # NoFrame

\* A running goroutine takes its next step: it dispatches the frame in
\* hand (weak fairness of DispatchMessage(c), written out with its enabling
\* condition), and it sees the end of its stream.
SpecConnFair ==
    /\ SpecConn
    /\ \A c \in 1..MaxWorkers :
          []<>(~DispatchEnabled(c)) \/ []<><<DispatchMessage(c)>>_vars
    /\ \A c \in 1..MaxWorkers : WF_vars(ReadMessageError(c))

\* C22: a step of one device's worker that ends its stream's handling (a
\* read error or the dispatch of a frame, however malformed) leaves every
\* running worker of another device running, with that device's registry
\* entry as it was.
C22_FailureStaysWithItsDevice ==
    [][ \A c1, c2 \in DOMAIN workers :
          ( /\ ev'.op \in {"dispatch", "closed"}
            /\ ev'.conn = c1
            /\ workers[c2].dev # workers[c1].dev
            /\ WorkerRunning(c2) )
          => /\ ~crashed'
             /\ workers'[c2] = workers[c2]
             /\ workers[c2].dev \in DOMAIN connections
                  => /\ workers[c2].dev \in DOMAIN connections'
                     /\ connections'[workers[c2].dev] = connections[workers[c2].dev]
      ]_vars

\* The number of frames a worker has finished handling.
Handled(w) == IF w.cur = NoFrame THEN w.read ELSE w.read - 1

\* C23: a worker holds at most one frame; the frame it takes is the next
\* one of its device's stream after those it has finished, so frame k + 1
\* is taken only when frame k is done; and the Reading of a frame is stored
\* in the step that finishes the frame.
C23_FramesHandledInArrivalOrder ==
    [][ \A c \in DOMAIN workers :
          /\ workers'[c].read \in {workers[c].read, workers[c].read + 1}
          /\ workers'[c].read = workers[c].read + 1 =>
                /\ workers[c].cur = NoFrame
                /\ workers'[c].cur = Stream(workers[c].dev)[Handled(workers[c]) + 1]
                /\ sensorData' = sensorData
          /\ Handled(workers'[c]) \in {Handled(workers[c]), Handled(workers[c]) + 1}
          /\ sensorData' # sensorData =>
                \E c2 \in DOMAIN workers :
                    /\ Handled(workers'[c2]) = Handled(workers[c2]) + 1
                    /\ workers[c2].cur.kind = "binary"
                    /\ sensorData' = handleBinaryMessage(workers[c2].cur.data,
                                                         sensorData, TRUE).table
      ]_vars

\* C23 witness: dev2's worker has its third frame in hand, its first two
\* done, while dev1's worker holds its first frame: frames of the two
\* devices are in flight at once.
C23_Witness ==
    \E c1, c2 \in DOMAIN workers :
        /\ workers[c1].dev = "dev1"
        /\ workers[c2].dev = "dev2"
        /\ WorkerRunning(c1) /\ WorkerRunning(c2)
        /\ workers[c1].cur = Stream("dev1")[1]
        /\ workers[c2].cur = Stream("dev2")[3]
        /\ workers[c2].read = 3

\* C26: every device with a running worker on a live connection has a
\* registry entry, the entry names a connection whose worker is running,
\* and the device's stored status is active.
C26_LiveConnectionIsRegistered ==
    \A c \in DOMAIN workers :
        WorkerRunning(c) =>
            /\ workers[c].dev \in DOMAIN connections
            /\ WorkerRunning(connections[workers[c].dev])
            /\ deviceStatus[workers[c].dev] = DeviceStatusActive

\* C27: a connect and a heartbeat leave the device's status active, and
\* once the stream of a worker that has not yet exited has ended, the
\* worker eventually has exited with the device's registry entry removed
\* and its status inactive.
C27_StatusFollowsStream ==
    /\ [](ev.op = "connect" /\ ev.outcome = "Connected"
             => deviceStatus[ev.dev] = DeviceStatusActive)
    /\ [](ev.op = "dispatch" /\ ev.outcome = "heartbeat"
             => deviceStatus[workers[ev.conn].dev] = DeviceStatusActive)
    /\ \A c \in 1..MaxWorkers :
          ( /\ c \in DOMAIN workers
            /\ workers[c].stream = "ended"
            /\ workers[c].state = "running" )
          ~> ( /\ c \in DOMAIN workers
               /\ workers[c].state = "exited"
               /\ workers[c].dev \notin DOMAIN connections
               /\ deviceStatus[workers[c].dev] = DeviceStatusInactive )

(***************************************************************************)
(* DeviceService.UpdateDeviceStatus and UpdateDeviceConfiguration as the   *)
(* two statements each runs: deviceRepo.FindByID reads the whole row into  *)
(* a local *domain.Device, the call sets one field of it, and              *)
(* deviceRepo.Update writes every column of the local copy back.  Calls    *)
(* run concurrently (one per HTTP request or connection goroutine).  Of    *)
(* the row, status and config_json are kept.                               *)
(***************************************************************************)
MaxCalls == 2

DeviceIDs == {"dev1", "dev9"}
Configurations == {"{\"rate\":10}", "{\"rate\":20}"}
DeviceStatuses == {DeviceStatusActive, DeviceStatusInactive}

NoDevice == [Status |-> "", Configuration |-> ""]

\* PostgresDeviceRepository.Update: UPDATE devices SET ..., config_json = $3,
\* status = $4, ... WHERE id = $6 with the values of the caller's object.
DeviceRepoUpdate(call) ==
    [Status |-> call.device.Status, Configuration |-> call.device.Configuration]

\* A call that has been entered and has not yet run a statement.
NewCall(kind, deviceID, arg) ==
    [kind |-> kind, dev |-> deviceID, arg |-> arg,
     pc |-> "FindByID", device |-> NoDevice, err |-> ""]

BeginUpdateDeviceStatus(deviceID, status) ==
    /\ Len(calls) < MaxCalls
    /\ calls' = Append(calls, NewCall("UpdateDeviceStatus", deviceID, status))
    /\ ev' = [op |-> "UpdateDeviceStatus", call |-> Len(calls) + 1, step |-> "called"]
    /\ UNCHANGED <<deviceStatus, deviceConfig, connections, workers, crashed,
                   emitVars, storeVars>>

BeginUpdateDeviceConfiguration(deviceID, config) ==
    /\ Len(calls) < MaxCalls
    /\ calls' = Append(calls, NewCall("UpdateDeviceConfiguration", deviceID, config))
    /\ ev' = [op |-> "UpdateDeviceConfiguration", call |-> Len(calls) + 1,
              step |-> "called"]
    /\ UNCHANGED <<deviceStatus, deviceConfig, connections, workers, crashed,
                   emitVars, storeVars>>

\* device, err := s.deviceRepo.FindByID(ctx, deviceID), then the field
\* assignment on the local copy.
DeviceFindByID(i) ==
    /\ i \in DOMAIN calls
    /\ calls[i].pc = "FindByID"
    /\ calls' =
         IF calls[i].dev \notin DOMAIN deviceStatus
         THEN [calls EXCEPT ![i].pc = "returned", ![i].err = "device not found"]
         ELSE [calls EXCEPT
                 ![i].pc = "Update",
                 ![i].device =
                     IF calls[i].kind = "UpdateDeviceStatus"
                     THEN [Status |-> calls[i].arg,
                           Configuration |-> deviceConfig[calls[i].dev]]
                     ELSE [Status |-> deviceStatus[calls[i].dev],
                           Configuration |-> calls[i].arg]]
    /\ ev' = [op |-> calls[i].kind, call |-> i, step |-> "FindByID"]
    /\ UNCHANGED <<deviceStatus, deviceConfig, connections, workers, crashed,
                   emitVars, storeVars>>

\* return s.deviceRepo.Update(ctx, device).
DeviceUpdate(i) ==
    /\ i \in DOMAIN calls
    /\ calls[i].pc = "Update"
    /\ \E row \in {DeviceRepoUpdate(calls[i])} :
          /\ deviceStatus' = [deviceStatus EXCEPT ![calls[i].dev] = row.Status]
          /\ deviceConfig' = [deviceConfig EXCEPT ![calls[i].dev] = row.Configuration]
    /\ calls' = [calls EXCEPT ![i].pc = "returned"]
    /\ ev' = [op |-> calls[i].kind, call |-> i, step |-> "Update"]
    /\ UNCHANGED <<connections, workers, crashed, emitVars, storeVars>>

InitDevice ==
    /\ InitEmitIdle
    /\ InitStores
    /\ deviceStatus = [d \in {"dev1"} |-> DeviceStatusInactive]
    /\ connections = EmptyMap
    /\ workers = <<>>
    /\ crashed = FALSE
    /\ InitDev
    /\ ev = NoEvent

NextDevice ==
    \/ \E d \in DeviceIDs, status \in DeviceStatuses : BeginUpdateDeviceStatus(d, status)
    \/ \E d \in DeviceIDs, config \in Configurations :
          BeginUpdateDeviceConfiguration(d, config)
    \/ \E i \in 1..MaxCalls : DeviceFindByID(i)
    \/ \E i \in 1..MaxCalls : DeviceUpdate(i)

SpecDevice == InitDevice /\ [][NextDevice]_vars

\* C30: when the only calls made are one UpdateDeviceStatus and one
\* UpdateDeviceConfiguration on the same device and both have returned
\* without error, the stored device has the status of the one and the
\* configuration of the other.
C30_BothUpdatesTakeEffect ==
    \A i, j \in DOMAIN calls :
        ( /\ Len(calls) = 2
          /\ calls[i].kind = "UpdateDeviceStatus"
          /\ calls[j].kind = "UpdateDeviceConfiguration"
          /\ calls[i].dev = calls[j].dev
          /\ calls[i].pc = "returned" /\ calls[i].err = ""
          /\ calls[j].pc = "returned" /\ calls[j].err = "" )
        => /\ deviceStatus[calls[i].dev] = calls[i].arg
           /\ deviceConfig[calls[j].dev] = calls[j].arg

====
